---- MODULE Spec2Model ----
(***************************************************************************)
(* Model of the exclusion sub-reconciler of the FoundationDB Kubernetes    *)
(* operator (controllers/exclude_processes.go) together with the lock      *)
(* helpers of the cluster controller.  One pass of excludeProcesses is     *)
(* split at its calls to the lock client and to the database: Start        *)
(* (lines 56-245), TakeLock (247-251), Exclude (253-313), Coordinators     *)
(* (315-355) and Return.  The cluster status, the exclusion list of the    *)
(* database, the shared pending/ready maps and the lock persist between    *)
(* passes and are changed by the environment actions.                      *)
(***************************************************************************)
EXTENDS Integers, Sequences, FiniteSets, TLC

\* ------------------------------------------------------------------ bounds
\* at most this many process groups are marked for removal at a time
MaxMarked == 2
\* at most this many process groups are irregular at a time: they carry the
\* MissingProcesses condition, or do not have exactly one address
MaxIrregular == 1
\* inputs of getAllowedExclusions are drawn from -MaxCount .. MaxCount
MaxCount == 2
\* the process groups that can become irregular: the coordinator, which is a
\* storage process group, and the log process group
IrregularProcessGroupIDs == {1, 4}

\* --------------------------------------------------------- program constants
\* coordination.IgnoreMissingProcessDuration, in minutes
IgnoreMissingProcessDuration == 5
\* r.MinimumRecoveryTimeForExclusion, in seconds
MinimumRecoveryTimeForExclusion == 60
\* delay of the requeue after a failed recovery-state check, in seconds
RecoveryRequeueDelay == 10
\* delay of the requeue when not all processes were excluded, in seconds
AdditionalExclusionsDelay == 300

\* the process groups of cluster.Status.ProcessGroups, in list order
ProcessGroupClasses ==
  <<"storage", "storage", "storage", "log", "stateless", "test">>
ProcessGroupIDs == 1 .. Len(ProcessGroupClasses)
ProcessClasses == {"storage", "log", "stateless", "test"}
\* desired process counts of the cluster spec
DesiredProcessCount ==
  [c \in ProcessClasses |->
     IF c = "storage" THEN 2 ELSE IF c = "test" THEN 0 ELSE 1]

VARIABLES
  config,                 \* cluster spec and reconciler options
  processGroups,          \* cluster.Status.ProcessGroups
  dbExclusions,           \* exclusion list held by the database
  dbPending,              \* shared pending-for-exclusion map (its keys)
  dbReady,                \* shared ready-for-exclusion map (its keys)
  dbCoordinators,         \* process groups that are coordinators
  lockOwner,              \* holder of the distributed lock
  pc,                     \* position of the running pass
  exclusions,             \* local: exclusion list read from the status
  secondsSinceLastRecovered, \* local: status.Cluster.RecoveryState
  coordinators,           \* local: GetCoordinatorsFromStatus(status)
  failedCall,             \* local: the call that returned an error, or "none"
  fdbProcessesToExcludeByClass, \* local
  ongoingExclusionsByClass,     \* local; -1 before getProcessesToExclude ran
  allowedExclusionsByClass,     \* local: result of getAllowedExclusionsAndMissingProcesses
  validProcessesByClass,        \* local: validProcesses of that call
  fdbProcessesToExclude,  \* local: addresses handed to the exclude call
  excludedProcessGroups,  \* local: process groups behind fdbProcessesToExclude
  allProcessesExcluded,   \* local
  calls,                  \* mutating calls issued by the running pass, in order
  result,                 \* requeue returned by the pass
  fnIn, fnOut,            \* input and output of getAllowedExclusions
  cluster,                \* Reconcile: the cluster resource in the store
  phase,                  \* Reconcile: position of the running pass
  index,                  \* Reconcile: position of the loop in subReconcilers
  ran,                    \* Reconcile: the sub-reconcilers run by the pass
  startCalls,             \* Reconcile: the calls made ahead of the loop
  lastReq,                \* Reconcile: requeue of the last sub-reconciler
  preReq,                 \* Reconcile: requeue of addPods run ahead of the loop
  requested,              \* Reconcile: delays of the delayed requeues of the loop
  originalGeneration,     \* Reconcile: local
  delayedRequeueDuration, \* Reconcile: local
  delayedRequeue,         \* Reconcile: local
  reconcileResult,        \* Reconcile: the ctrl.Result and error returned
  pvcs,                   \* resource store: the PVCs, by process group
  existingConfigMap,      \* resource store: the config map of the cluster
  desiredConfigMap,       \* the config map internal.GetConfigMap builds
  runs,                   \* runs of addPVCs and updateConfigMap since the
                          \* last change made by anything else
  instances,              \* the passes of excludeProcesses of the operator
                          \* instances that work on the same cluster
  status                  \* Reconcile: seconds since the last recovery in
                          \* the status it caches for the sub-reconcilers,
                          \* NoStatus when it caches none

vars == <<config, processGroups, dbExclusions, dbPending, dbReady,
          dbCoordinators, lockOwner, pc, exclusions,
          secondsSinceLastRecovered, coordinators, failedCall,
          fdbProcessesToExcludeByClass,
          ongoingExclusionsByClass, allowedExclusionsByClass,
          validProcessesByClass, fdbProcessesToExclude,
          excludedProcessGroups, allProcessesExcluded, calls, result,
          fnIn, fnOut, cluster, phase, index, ran, startCalls, lastReq, preReq,
          requested,
          originalGeneration, delayedRequeueDuration, delayedRequeue,
          reconcileResult, pvcs, existingConfigMap, desiredConfigMap, runs,
          instances, status>>

dbVars == <<dbExclusions, dbPending, dbReady, dbCoordinators, lockOwner>>
localVars == <<exclusions, secondsSinceLastRecovered, coordinators, failedCall,
               fdbProcessesToExcludeByClass, ongoingExclusionsByClass,
               allowedExclusionsByClass, validProcessesByClass,
               fdbProcessesToExclude, excludedProcessGroups,
               allProcessesExcluded, calls, result>>
fnVars == <<fnIn, fnOut>>
passVars == <<phase, index, ran, startCalls, lastReq, preReq, requested,
              originalGeneration,
              delayedRequeueDuration, delayedRequeue, reconcileResult>>
driverVars == <<cluster, passVars>>
storeVars == <<pvcs, existingConfigMap, desiredConfigMap, runs>>
otherVars == <<storeVars, instances>>

\* ------------------------------------------------------------ small helpers
Min(a, b) == IF a < b THEN a ELSE b
Max(a, b) == IF a > b THEN a ELSE b

\* ProcessGroupStatus.GetExclusionString: the locality of the process group
GetExclusionString(id) == <<"locality", id>>
\* ProcessAddress.String of an IP address
AddressString(a) == <<"ip", a>>
\* the first address a pod of the process group gets, and the next one
PrimaryAddress(id) == id
SecondaryAddress(id) == id + 10

\* ProcessClass.IsTransaction
IsTransaction(c) == c \notin {"storage", "general"}

\* the requeue struct; a nil requeue has isNil = TRUE
NilRequeue ==
  [isNil |-> TRUE, curError |-> FALSE, delayedRequeue |-> FALSE,
   delay |-> 0, message |-> ""]
Requeue(err, delayed, d, msg) ==
  [isNil |-> FALSE, curError |-> err, delayedRequeue |-> delayed,
   delay |-> d, message |-> msg]

\* the messages of the requeues of excludeProcesses.reconcile
NotAllowedMessage ==
  "more exclusions needed but not allowed, have to wait for new processes to come up"
TransactionSystemMessage ==
  "more exclusions needed but not allowed, have to wait until new processes for the transaction system are up to reduce number of recoveries."
AdditionalExclusionsMessage == "Additional processes must be excluded"

EmptyByClass == [c \in ProcessClasses |-> <<>>]
ZeroByClass == [c \in ProcessClasses |-> 0]
NoneByClass == [c \in ProcessClasses |-> -1]

\* ------------------------------------------------- getAllowedExclusions
\* the difference without the lower bound
getAllowedExclusionsUnclamped(validProcesses, desiredProcessCount, ongoingExclusions, faultTolerance) ==
  validProcesses + faultTolerance - desiredProcessCount - ongoingExclusions

getAllowedExclusions(validProcesses, desiredProcessCount, ongoingExclusions, faultTolerance) ==
  LET allowedExclusions ==
        validProcesses + faultTolerance - desiredProcessCount
          - ongoingExclusions
  IN IF allowedExclusions < 0 THEN 0 ELSE allowedExclusions

\* ------------------------------- getAllowedExclusionsAndMissingProcesses
\* the iteration without the grace window: a missing process group is left
\* out of the count and never forbids exclusions
countProcessGroupNoGrace(acc, processGroup, processClass, inSimulation) ==
  IF processGroup.processClass # processClass THEN acc
  ELSE IF processGroup.markedForRemoval /\ processGroup.excluded THEN acc
  ELSE IF processGroup.missingMinutes # -1 /\ ~inSimulation
    THEN [acc EXCEPT !.missingProcesses = Append(@, processGroup.id)]
  ELSE [acc EXCEPT !.validProcesses = @ + 1]

\* the iteration leaving out every process group marked for removal
countProcessGroupUnmarked(acc, processGroup, processClass, inSimulation) ==
  IF processGroup.processClass # processClass THEN acc
  ELSE IF processGroup.markedForRemoval THEN acc
  ELSE IF processGroup.missingMinutes # -1 /\ ~inSimulation
    THEN [acc EXCEPT
            !.missingProcesses = Append(@, processGroup.id),
            !.exclusionsAllowed =
               IF processGroup.missingMinutes < IgnoreMissingProcessDuration
                 THEN FALSE ELSE @]
  ELSE [acc EXCEPT !.validProcesses = @ + 1]

\* one iteration of the loop over cluster.Status.ProcessGroups
countProcessGroup(acc, processGroup, processClass, inSimulation) ==
  IF processGroup.processClass # processClass THEN acc
  ELSE IF processGroup.markedForRemoval /\ processGroup.excluded THEN acc
  ELSE IF processGroup.missingMinutes # -1 /\ ~inSimulation
    THEN [acc EXCEPT
            !.missingProcesses = Append(@, processGroup.id),
            !.exclusionsAllowed =
               IF processGroup.missingMinutes < IgnoreMissingProcessDuration
                 THEN FALSE ELSE @]
  ELSE [acc EXCEPT !.validProcesses = @ + 1]

RECURSIVE countProcessGroups(_, _, _, _, _)
countProcessGroups(i, acc, pgs, processClass, inSimulation) ==
  IF i > Len(pgs) THEN acc
  ELSE countProcessGroups(i + 1,
         countProcessGroup(acc, pgs[i], processClass, inSimulation),
         pgs, processClass, inSimulation)

getAllowedExclusionsAndMissingProcesses(pgs, processClass, desiredProcessCount, ongoingExclusions, faultTolerance, inSimulation) ==
  LET acc == countProcessGroups(1,
               [validProcesses |-> 0, missingProcesses |-> <<>>,
                exclusionsAllowed |-> TRUE],
               pgs, processClass, inSimulation)
  IN [allowedExclusions |->
        IF ~acc.exclusionsAllowed THEN 0
        ELSE getAllowedExclusions(acc.validProcesses, desiredProcessCount,
                                  ongoingExclusions, faultTolerance),
      missingProcesses |-> acc.missingProcesses,
      validProcesses |-> acc.validProcesses]

\* ------------------------------------------------- getProcessesToExclude
\* the addresses of a process group that are not in the exclusion list
addressesToExclude(processGroup, currentExclusionMap) ==
  {AddressString(a) : a \in processGroup.addresses} \ currentExclusionMap

\* the iteration without the check of the test class
excludeProcessGroupAnyClass(acc, processGroup, currentExclusionMap, useLocalities, pendingExclusions) ==
  LET class == processGroup.processClass
      id == processGroup.id
      withPending ==
        IF id \notin pendingExclusions
          THEN [acc EXCEPT !.updatePendingExclusions = @ \cup {id}]
          ELSE acc
      addresses == addressesToExclude(processGroup, currentExclusionMap)
      allAddressesExcluded ==
        \A a \in processGroup.addresses :
           AddressString(a) \in currentExclusionMap
      withEntry ==
        IF addresses # {}
          THEN [withPending EXCEPT !.toExclude[class] =
                  Append(@, [processGroupID |-> id, addresses |-> addresses])]
          ELSE withPending
  IN IF ~processGroup.markedForRemoval THEN acc
     ELSE IF processGroup.excluded THEN acc
     ELSE IF GetExclusionString(id) \in currentExclusionMap
       THEN [acc EXCEPT !.ongoing[class] = @ + 1]
     ELSE IF useLocalities
       THEN [withPending EXCEPT !.toExclude[class] =
               Append(@, [processGroupID |-> id,
                          addresses |-> {GetExclusionString(id)}])]
     ELSE IF allAddressesExcluded
       THEN [withEntry EXCEPT !.ongoing[class] = @ + 1]
     ELSE withEntry

\* one iteration of the loop over cluster.Status.ProcessGroups
excludeProcessGroup(acc, processGroup, currentExclusionMap, useLocalities, pendingExclusions) ==
  LET class == processGroup.processClass
      id == processGroup.id
      withPending ==
        IF id \notin pendingExclusions
          THEN [acc EXCEPT !.updatePendingExclusions = @ \cup {id}]
          ELSE acc
      addresses == addressesToExclude(processGroup, currentExclusionMap)
      allAddressesExcluded ==
        \A a \in processGroup.addresses :
           AddressString(a) \in currentExclusionMap
      withEntry ==
        IF addresses # {}
          THEN [withPending EXCEPT !.toExclude[class] =
                  Append(@, [processGroupID |-> id, addresses |-> addresses])]
          ELSE withPending
  IN IF class = "test" THEN acc
     ELSE IF ~processGroup.markedForRemoval THEN acc
     ELSE IF processGroup.excluded THEN acc
     ELSE IF GetExclusionString(id) \in currentExclusionMap
       THEN [acc EXCEPT !.ongoing[class] = @ + 1]
     ELSE IF useLocalities
       THEN [withPending EXCEPT !.toExclude[class] =
               Append(@, [processGroupID |-> id,
                          addresses |-> {GetExclusionString(id)}])]
     ELSE IF allAddressesExcluded
       THEN [withEntry EXCEPT !.ongoing[class] = @ + 1]
     ELSE withEntry

RECURSIVE excludeProcessGroups(_, _, _, _, _, _)
excludeProcessGroups(i, acc, pgs, currentExclusionMap, useLocalities, pendingExclusions) ==
  IF i > Len(pgs) THEN acc
  ELSE excludeProcessGroups(i + 1,
         excludeProcessGroup(acc, pgs[i], currentExclusionMap, useLocalities,
                             pendingExclusions),
         pgs, currentExclusionMap, useLocalities, pendingExclusions)

\* the loop run against an empty exclusion list
getProcessesToExcludeIgnoringExclusions(currentExclusions, pgs, useLocalities, pendingExclusions) ==
  excludeProcessGroups(1,
    [toExclude |-> EmptyByClass, ongoing |-> ZeroByClass,
     updatePendingExclusions |-> {}],
    pgs, {}, useLocalities, pendingExclusions)

\* returns fdbProcessesToExcludeByClass (toExclude), ongoingExclusionsByClass
\* (ongoing) and the entries it put into updatePendingExclusions
getProcessesToExclude(currentExclusions, pgs, useLocalities, pendingExclusions) ==
  excludeProcessGroups(1,
    [toExclude |-> EmptyByClass, ongoing |-> ZeroByClass,
     updatePendingExclusions |-> {}],
    pgs, currentExclusions, useLocalities, pendingExclusions)

\* ------------------------------------ excludeProcesses.reconcile, the loop
\* over the classes of fdbProcessesToExcludeByClass (lines 155-221)
\* the classes the loop visits
classesToExclude(byClass) == {c \in ProcessClasses : byClass[c] # <<>>}

\* the inner loop running over all entries of a class with allowed exclusions
exclusionCountOfAll(processesToExclude, allowedExclusions) ==
  IF allowedExclusions <= 0 THEN 0 ELSE Len(processesToExclude)

\* the number of entries of a class the inner loop appends
exclusionCount(processesToExclude, allowedExclusions) ==
  IF allowedExclusions <= 0 THEN 0
  ELSE IF Len(processesToExclude) < allowedExclusions
    THEN Len(processesToExclude)
  ELSE allowedExclusions

\* the inner loop taking the entries from the end of the list
entriesToExcludeFromEnd(processesToExclude, allowedExclusions) ==
  SubSeq(processesToExclude,
         Len(processesToExclude)
           - exclusionCount(processesToExclude, allowedExclusions) + 1,
         Len(processesToExclude))

\* the entries of a class the inner loop appends
entriesToExclude(processesToExclude, allowedExclusions) ==
  SubSeq(processesToExclude, 1,
         exclusionCount(processesToExclude, allowedExclusions))

\* the transaction-system rule left out
transactionSystemExclusionAlwaysAllowed(byClass, allowedByClass) == TRUE

\* the rule looking at the classes outside the transaction system
transactionSystemExclusionAllowedOutside(byClass, allowedByClass) ==
  ~ \E c \in classesToExclude(byClass) :
       allowedByClass[c] <= 0 /\ ~IsTransaction(c)

transactionSystemExclusionAllowed(byClass, allowedByClass) ==
  ~ \E c \in classesToExclude(byClass) :
       allowedByClass[c] <= 0 /\ IsTransaction(c)

allExcluded(byClass, allowedByClass) ==
  \A c \in classesToExclude(byClass) :
     allowedByClass[c] > 0 /\ Len(byClass[c]) <= allowedByClass[c]

\* the entries appended for all classes
selectedEntries(byClass, allowedByClass) ==
  UNION {{entriesToExclude(byClass[c], allowedByClass[c])[i] :
            i \in 1 .. exclusionCount(byClass[c], allowedByClass[c])} :
         c \in classesToExclude(byClass)}

\* ------------------------------------------------ coordination (database)
\* GetPendingForExclusion / GetReadyForExclusion with the cluster's prefix
withPrefix(ids) == ids \cap ProcessGroupIDs
\* the addresses GetAddressesFromCoordinationState returns for an id
coordinationAddresses(pgs, id, useLocalities) ==
  IF useLocalities THEN {GetExclusionString(id)}
  ELSE {AddressString(a) : a \in pgs[id].addresses}
GetAddressesFromCoordinationState(pgs, ids, useLocalities) ==
  UNION {coordinationAddresses(pgs, id, useLocalities) : id \in ids}
\* AllProcessesReadyForExclusion: an error while the wait window of a pending
\* process group that is not ready is open, else the pending process groups
\* that are ready
AllProcessesReadyForExclusion(pendingExclusions, readyExclusions) ==
  pendingExclusions \cap readyExclusions
\* CanSafelyExcludeProcessesWithRecoveryState
CanSafelyExcludeProcessesWithRecoveryState(seconds, minimum) ==
  seconds >= minimum

\* ----------------------------------------------------------------- Init
ProcessGroup(id, missing, addrs) ==
  [id |-> id, processClass |-> ProcessGroupClasses[id],
   markedForRemoval |-> FALSE, excluded |-> FALSE,
   missingMinutes |-> missing, addresses |-> addrs]

Configs ==
  [synchronizationMode : {"local", "global"},
   useLocalitiesForExclusion : BOOLEAN,
   shouldUseLocks : {TRUE},
   desiredFaultTolerance : {1},
   simulateTime : {FALSE}]

IdleLocals ==
  /\ exclusions = {}
  /\ secondsSinceLastRecovered = 0
  /\ coordinators = {}
  /\ failedCall = "none"
  /\ fdbProcessesToExcludeByClass = EmptyByClass
  /\ ongoingExclusionsByClass = NoneByClass
  /\ allowedExclusionsByClass = NoneByClass
  /\ validProcessesByClass = NoneByClass
  /\ fdbProcessesToExclude = {}
  /\ excludedProcessGroups = {}
  /\ allProcessesExcluded = TRUE
  /\ calls = <<>>
  /\ result = NilRequeue

\* the cluster resource as far as Reconcile looks at it
Cluster(exists, skip, useDNS, generation, reconciled) ==
  [exists |-> exists, skip |-> skip, useDNSInClusterFile |-> useDNS,
   generation |-> generation, reconciled |-> reconciled]
\* the ctrl.Result and the error Reconcile returns; NoResult before it returns
Result(requeueAfter, err) == [requeueAfter |-> requeueAfter, error |-> err]
NoResult == Result(-1, FALSE)

\* no pass of Reconcile is running
IdlePass ==
  /\ phase = "idle"
  /\ index = 0
  /\ ran = <<>>
  /\ startCalls = <<>>
  /\ lastReq = NilRequeue
  /\ preReq = NilRequeue
  /\ requested = {}
  /\ originalGeneration = 0
  /\ delayedRequeueDuration = 0
  /\ delayedRequeue = FALSE
  /\ reconcileResult = NoResult
IdleDriver ==
  /\ cluster = Cluster(TRUE, FALSE, FALSE, 1, 1)
  /\ IdlePass

\* a config map as far as updateConfigMap looks at it; exists is FALSE for
\* the answer of the resource store when it has none
ConfigMap(exists, data, labels, annotations) ==
  [exists |-> exists, data |-> data, labels |-> labels,
   annotations |-> annotations]
NoConfigMap == ConfigMap(FALSE, 0, {}, {})
\* the resource store holds nothing of the cluster
IdleStore ==
  /\ pvcs = {}
  /\ existingConfigMap = NoConfigMap
  /\ desiredConfigMap = ConfigMap(TRUE, 1, {}, {})
  /\ runs = <<>>

\* the operator instances that work on the same cluster and database
Instances == {"a", "b"}
\* an instance that runs no pass of excludeProcesses: its locals
IdleInstance ==
  [pc |-> "idle", fail |-> "none", recovered |-> 0, exclusions |-> {},
   coordinators |-> {}, pendingRead |-> {}, readyRead |-> {},
   pendingUpdate |-> {}, readyUpdate |-> {}, pendingReread |-> {},
   readyReread |-> {}, toExclude |-> {},
   allExcluded |-> TRUE, lockTaken |-> FALSE, calls |-> <<>>,
   result |-> NilRequeue, failed |-> "none"]
IdleInstances == instances = [i \in Instances |-> IdleInstance]
\* Reconcile line 568: no status is cached
NoStatus == -1
IdleStatus == status = NoStatus
IdleOthers == IdleStore /\ IdleInstances /\ IdleStatus

Init ==
  /\ config \in Configs
  /\ \E noAddress \in SUBSET IrregularProcessGroupIDs :
       /\ Cardinality(noAddress) <= MaxIrregular
       /\ processGroups =
            [id \in ProcessGroupIDs |->
               ProcessGroup(id, -1,
                 IF id \in noAddress THEN {} ELSE {PrimaryAddress(id)})]
  /\ dbExclusions = {}
  /\ dbPending = {}
  /\ dbReady = {}
  /\ dbCoordinators = {1}
  /\ lockOwner = "none"
  /\ pc = "idle"
  /\ IdleLocals
  /\ fnIn = <<0, 0, 0, 0>>
  /\ fnOut = 0
  /\ IdleDriver
  /\ IdleOthers

\* ------------------------------------------------------ environment steps
marked == {id \in ProcessGroupIDs : processGroups[id].markedForRemoval}
missing == {id \in ProcessGroupIDs : processGroups[id].missingMinutes # -1}
addressChanged ==
  {id \in ProcessGroupIDs :
     processGroups[id].addresses # {PrimaryAddress(id)}}
irregular == missing \cup addressChanged

\* the user or another sub-reconciler marks a process group for removal
MarkForRemoval(id) ==
  /\ pc = "idle"
  /\ ~processGroups[id].markedForRemoval
  /\ Cardinality(marked) < MaxMarked
  /\ processGroups' = [processGroups EXCEPT ![id].markedForRemoval = TRUE]
  /\ UNCHANGED <<status, otherVars, config, dbVars, pc, localVars, fnVars, driverVars>>

\* the status update observes that the process group is fully excluded
StatusExcluded(id) ==
  /\ pc = "idle"
  /\ processGroups[id].markedForRemoval
  /\ ~processGroups[id].excluded
  /\ \/ GetExclusionString(id) \in dbExclusions
     \/ /\ processGroups[id].addresses # {}
        /\ \A a \in processGroups[id].addresses :
              AddressString(a) \in dbExclusions
  /\ processGroups' = [processGroups EXCEPT ![id].excluded = TRUE]
  /\ UNCHANGED <<status, otherVars, config, dbVars, pc, localVars, fnVars, driverVars>>

\* the status update sets the MissingProcesses condition
ProcessMissing(id) ==
  /\ pc = "idle"
  /\ processGroups[id].missingMinutes = -1
  /\ id \in IrregularProcessGroupIDs \ irregular
  /\ Cardinality(irregular) < MaxIrregular
  /\ processGroups' = [processGroups EXCEPT ![id].missingMinutes = 0]
  /\ UNCHANGED <<status, otherVars, config, dbVars, pc, localVars, fnVars, driverVars>>

\* the grace window of a missing process group runs out
TimePasses(id) ==
  /\ pc = "idle"
  /\ processGroups[id].missingMinutes = 0
  /\ processGroups' = [processGroups EXCEPT
                         ![id].missingMinutes = IgnoreMissingProcessDuration]
  /\ UNCHANGED <<status, otherVars, config, dbVars, pc, localVars, fnVars, driverVars>>

\* the pod of a process group is recreated and gets a new address
PodRecreated(id) ==
  /\ pc = "idle"
  /\ id \in IrregularProcessGroupIDs \ irregular
  /\ Cardinality(irregular) < MaxIrregular
  /\ processGroups' = [processGroups EXCEPT
                         ![id].addresses = @ \cup {SecondaryAddress(id)}]
  /\ UNCHANGED <<status, otherVars, config, dbVars, pc, localVars, fnVars, driverVars>>

\* ------------------------------------------- excludeProcesses.reconcile
\* the calls of lines 56-245 that can fail
StartFailures ==
  {"getAdminClient", "GetStatus", "GetExclusions", "GetPendingForExclusion",
   "UpdatePendingForExclusion", "GetProcessCountsWithDefaults",
   "GetReadyForExclusion", "UpdateReadyForExclusion"}

Call(name, arg) == [name |-> name, arg |-> arg]

\* what the pass has computed when it returns before the class loop; found
\* is NothingFound when it returns before getProcessesToExclude
Returned(req, failed, excl, recovered, coords, found, pendingUpdate, issued) ==
  [pc |-> "done", result |-> req, failed |-> failed, exclusions |-> excl,
   recovered |-> recovered, coordinators |-> coords,
   byClass |-> found.toExclude, ongoing |-> found.ongoing,
   allowed |-> NoneByClass, valid |-> NoneByClass,
   toExclude |-> {}, allExcluded |-> TRUE,
   pendingUpdate |-> pendingUpdate, readyUpdate |-> {}, calls |-> issued]

NothingFound ==
  [toExclude |-> EmptyByClass, ongoing |-> NoneByClass,
   updatePendingExclusions |-> {}]

\* line 132: the requeue after a failed recovery-state check, without delay
recoveryRequeueWithoutDelay == Requeue(TRUE, TRUE, 0, "")
\* line 132: the requeue after a failed recovery-state check
recoveryRequeue == Requeue(TRUE, TRUE, RecoveryRequeueDelay, "")

\* the name under which a failed recovery-state check is recorded
RecoveryCheck == "CanSafelyExcludeProcessesWithRecoveryState"

\* line 223 without the test: the pass goes on with nothing to exclude
nothingSelectedIgnored(toExclude) == FALSE
\* line 223: len(fdbProcessesToExclude) == 0
nothingSelected(toExclude) == toExclude = {}

\* lines 223-228 returning the error of a failed call instead of a message
notAllowedRequeueAsError == Requeue(TRUE, TRUE, 0, "")
\* lines 223-228: the requeue when no candidate was selected
notAllowedRequeue == Requeue(FALSE, TRUE, 0, NotAllowedMessage)

\* lines 213-217 adding every entry, whether it is in the ready map or not
updateReadyExclusionsOfAll(entries, readyExclusions) ==
  {e.processGroupID : e \in entries}
\* lines 213-217: the entries put into updateReadyExclusions
updateReadyExclusions(entries, readyExclusions) ==
  {e.processGroupID : e \in entries} \ readyExclusions

\* lines 56-245: everything up to the lock
reconcileStart(cfg, pgs, dbExcl, pending, ready, coords, fail, recovered) ==
  LET global == cfg.synchronizationMode = "global"
      pendingExclusions == IF global THEN withPrefix(pending) ELSE {}
      found == getProcessesToExclude(dbExcl, pgs,
                 cfg.useLocalitiesForExclusion, pendingExclusions)
      byClass == found.toExclude
      pendingCalls ==
        IF global
          THEN <<Call("UpdatePendingForExclusion",
                      found.updatePendingExclusions)>>
          ELSE <<>>
      pendingUpdate == IF global THEN found.updatePendingExclusions ELSE {}
      readyExclusions == IF global THEN withPrefix(ready) ELSE {}
      counted ==
        [c \in ProcessClasses |->
           getAllowedExclusionsAndMissingProcesses(pgs, c,
             DesiredProcessCount[c], found.ongoing[c],
             cfg.desiredFaultTolerance, cfg.simulateTime)]
      allowedByClass ==
        [c \in ProcessClasses |->
           IF byClass[c] # <<>> THEN counted[c].allowedExclusions ELSE -1]
      validByClass ==
        [c \in ProcessClasses |->
           IF byClass[c] # <<>> THEN counted[c].validProcesses ELSE -1]
      entries == selectedEntries(byClass, allowedByClass)
      toExclude == UNION {e.addresses : e \in entries}
      readyUpdate == updateReadyExclusions(entries, readyExclusions)
      looped(req, failed, nextPc, readyUpd, issued) ==
        [pc |-> nextPc, result |-> req, failed |-> failed,
         exclusions |-> dbExcl, recovered |-> recovered,
         coordinators |-> coords, byClass |-> byClass, ongoing |-> found.ongoing,
         allowed |-> allowedByClass, valid |-> validByClass,
         toExclude |-> toExclude,
         allExcluded |-> allExcluded(byClass, allowedByClass),
         pendingUpdate |-> pendingUpdate, readyUpdate |-> readyUpd,
         calls |-> issued]
  IN
  IF fail \in {"getAdminClient", "GetStatus"}
    THEN Returned(Requeue(TRUE, FALSE, 0, ""), fail, {}, 0, {}, NothingFound,
                  {}, <<>>)
  ELSE IF fail = "GetExclusions"
    THEN Returned(Requeue(TRUE, TRUE, 0, ""), fail, {}, recovered, {},
                  NothingFound, {}, <<>>)
  ELSE IF global /\ fail = "GetPendingForExclusion"
    THEN Returned(Requeue(TRUE, TRUE, 0, ""), fail, dbExcl, recovered, {},
                  NothingFound, {}, <<>>)
  ELSE IF classesToExclude(byClass) = {}
    THEN Returned(NilRequeue, "none", dbExcl, recovered, {}, found, {}, <<>>)
  ELSE IF global /\ fail = "UpdatePendingForExclusion"
    THEN Returned(Requeue(TRUE, TRUE, 0, ""), fail, dbExcl, recovered, {},
                  found, {}, pendingCalls)
  ELSE IF ~CanSafelyExcludeProcessesWithRecoveryState(recovered,
              MinimumRecoveryTimeForExclusion)
    THEN Returned(recoveryRequeue, RecoveryCheck, dbExcl, recovered, coords,
                  found, pendingUpdate, pendingCalls)
  ELSE IF fail = "GetProcessCountsWithDefaults"
          \/ (global /\ fail = "GetReadyForExclusion")
    THEN Returned(Requeue(TRUE, TRUE, 0, ""), fail, dbExcl, recovered, coords,
                  found, pendingUpdate, pendingCalls)
  ELSE IF nothingSelected(toExclude)
    THEN looped(notAllowedRequeue, "none", "done", {}, pendingCalls)
  ELSE IF ~transactionSystemExclusionAllowed(byClass, allowedByClass)
    THEN looped(Requeue(FALSE, TRUE, 0, TransactionSystemMessage), "none",
                "done", {}, pendingCalls)
  ELSE IF global /\ fail = "UpdateReadyForExclusion"
    THEN looped(Requeue(TRUE, TRUE, 0, ""), fail, "done", {},
                pendingCalls \o <<Call("UpdateReadyForExclusion",
                                       readyUpdate)>>)
  ELSE looped(NilRequeue, "none", "lock", IF global THEN readyUpdate ELSE {},
              IF global
                THEN pendingCalls \o <<Call("UpdateReadyForExclusion",
                                            readyUpdate)>>
                ELSE <<>>)

Start(fail, recovered) ==
  /\ pc = "idle"
  /\ status # NoStatus => (recovered = status /\ fail # "GetStatus")
  /\ LET out == reconcileStart(config, processGroups, dbExclusions,
                               dbPending, dbReady, dbCoordinators, fail,
                               recovered)
     IN /\ pc' = out.pc
        /\ result' = out.result
        /\ failedCall' = out.failed
        /\ exclusions' = out.exclusions
        /\ secondsSinceLastRecovered' = out.recovered
        /\ coordinators' = out.coordinators
        /\ fdbProcessesToExcludeByClass' = out.byClass
        /\ ongoingExclusionsByClass' = out.ongoing
        /\ allowedExclusionsByClass' = out.allowed
        /\ validProcessesByClass' = out.valid
        /\ fdbProcessesToExclude' = out.toExclude
        /\ excludedProcessGroups' = {}
        /\ allProcessesExcluded' = out.allExcluded
        /\ calls' = out.calls
        /\ dbPending' = dbPending \cup out.pendingUpdate
        /\ dbReady' = dbReady \cup out.readyUpdate
  /\ UNCHANGED <<status, otherVars, config, processGroups, dbExclusions, dbCoordinators,
                 lockOwner, fnVars, driverVars>>

\* a return of the pass with a requeue
Finish(req, failed) ==
  /\ pc' = "done"
  /\ result' = req
  /\ failedCall' = failed

\* the pass goes on to the next call
Continue(nextPc) ==
  /\ pc' = nextPc
  /\ UNCHANGED <<status, result, failedCall>>

\* takeLock as a scoped acquisition: the lock is given back at once
TakeLockReleasing(clientOk, lockOk) ==
  /\ pc = "lock"
  /\ IF ~config.shouldUseLocks
       THEN /\ Continue("exclude")
            /\ UNCHANGED <<lockOwner, calls>>
     ELSE IF ~clientOk
       THEN /\ Finish(Requeue(TRUE, TRUE, 0, ""), "getLockClient")
            /\ UNCHANGED <<lockOwner, calls>>
     ELSE IF lockOk
       THEN /\ lockOwner' = "none"
            /\ calls' = calls \o <<Call("TakeLock", TRUE),
                                   Call("ReleaseLock", TRUE)>>
            /\ Continue("exclude")
     ELSE /\ calls' = Append(calls, Call("TakeLock", FALSE))
          /\ Finish(Requeue(TRUE, TRUE, 0, ""), "TakeLock")
          /\ UNCHANGED lockOwner
  /\ UNCHANGED <<status, otherVars, config, processGroups, dbExclusions, dbPending, dbReady,
                 dbCoordinators, exclusions, secondsSinceLastRecovered,
                 coordinators,
                 fdbProcessesToExcludeByClass, ongoingExclusionsByClass,
                 allowedExclusionsByClass, validProcessesByClass,
                 fdbProcessesToExclude, excludedProcessGroups,
                 allProcessesExcluded, fnVars, driverVars>>

\* lines 247-251 with FoundationDBClusterReconciler.takeLock
TakeLock(clientOk, lockOk) ==
  /\ pc = "lock"
  /\ IF ~config.shouldUseLocks
       THEN /\ Continue("exclude")
            /\ UNCHANGED <<lockOwner, calls>>
     ELSE IF ~clientOk
       THEN /\ Finish(Requeue(TRUE, TRUE, 0, ""), "getLockClient")
            /\ UNCHANGED <<lockOwner, calls>>
     ELSE IF lockOk
       THEN /\ lockOwner' = "self"
            /\ calls' = Append(calls, Call("TakeLock", TRUE))
            /\ Continue("exclude")
     ELSE /\ calls' = Append(calls, Call("TakeLock", FALSE))
          /\ Finish(Requeue(TRUE, TRUE, 0, ""), "TakeLock")
          /\ UNCHANGED lockOwner
  /\ UNCHANGED <<status, otherVars, config, processGroups, dbExclusions, dbPending, dbReady,
                 dbCoordinators, exclusions, secondsSinceLastRecovered,
                 coordinators,
                 fdbProcessesToExcludeByClass, ongoingExclusionsByClass,
                 allowedExclusionsByClass, validProcessesByClass,
                 fdbProcessesToExclude, excludedProcessGroups,
                 allProcessesExcluded, fnVars, driverVars>>

\* the calls of lines 253-295 that can fail
ExcludeFailures ==
  {"GetPendingForExclusion", "GetReadyForExclusion",
   "AllProcessesReadyForExclusion", "GetAddressesFromCoordinationState"}

\* line 309 leaving the status as it is
resetRecoveryStateSkipped(cached) == cached
\* line 309: the write goes through the pointer Reconcile handed over, or
\* to the status the pass fetched for itself
resetRecoveryState(cached) == IF cached = NoStatus THEN NoStatus ELSE 0

\* lines 297-313 flagging the process groups handed to the exclude call as
\* excluded in the status
processGroupsFlaggedExcluded(pgs, groups) ==
  [id \in DOMAIN pgs |->
     IF id \in groups THEN [pgs[id] EXCEPT !.excluded = TRUE] ELSE pgs[id]]
\* lines 297-313: the process groups of the status are read for their
\* addresses and are not written
processGroupsAfterExclude(pgs, groups) == pgs

\* lines 297-313 with a failed exclude call ending the pass at once
ExcludeProcessesWithNoWaitAborting(addresses, groups, allDone, ok) ==
  /\ calls' = Append(calls, Call("ExcludeProcessesWithNoWait", addresses))
  /\ fdbProcessesToExclude' = addresses
  /\ excludedProcessGroups' = groups
  /\ allProcessesExcluded' = allDone
  /\ secondsSinceLastRecovered' = 0
  /\ status' = resetRecoveryState(status)
  /\ processGroups' = processGroupsAfterExclude(processGroups, groups)
  /\ IF ok
       THEN /\ dbExclusions' = dbExclusions \cup addresses
            /\ Continue("coordinators")
       ELSE /\ Finish(Requeue(TRUE, FALSE, 0, ""),
                      "ExcludeProcessesWithNoWait")
            /\ UNCHANGED dbExclusions

\* lines 297-313: the exclude call and the reset of the recovery state
ExcludeProcessesWithNoWait(addresses, groups, allDone, ok) ==
  /\ calls' = Append(calls, Call("ExcludeProcessesWithNoWait", addresses))
  /\ fdbProcessesToExclude' = addresses
  /\ excludedProcessGroups' = groups
  /\ allProcessesExcluded' = allDone
  /\ secondsSinceLastRecovered' = 0
  /\ status' = resetRecoveryState(status)
  /\ processGroups' = processGroupsAfterExclude(processGroups, groups)
  /\ IF ok
       THEN /\ dbExclusions' = dbExclusions \cup addresses
            /\ Continue("coordinators")
       ELSE /\ Finish(Requeue(TRUE, TRUE, 0, ""),
                      "ExcludeProcessesWithNoWait")
            /\ UNCHANGED dbExclusions

\* lines 253-313
Exclude(fail, ok) ==
  /\ pc = "exclude"
  /\ IF config.synchronizationMode = "global"
       THEN IF fail \in ExcludeFailures
              THEN /\ Finish(Requeue(TRUE, TRUE, 0, ""), fail)
                   /\ UNCHANGED <<status, processGroups, dbExclusions, calls,
                                  fdbProcessesToExclude, excludedProcessGroups,
                                  allProcessesExcluded,
                                  secondsSinceLastRecovered>>
              ELSE LET allowedExclusions ==
                         AllProcessesReadyForExclusion(dbPending, dbReady)
                   IN ExcludeProcessesWithNoWait(
                       GetAddressesFromCoordinationState(processGroups,
                         allowedExclusions,
                         config.useLocalitiesForExclusion),
                       allowedExclusions,
                       IF Cardinality(allowedExclusions) # Cardinality(dbReady)
                         THEN FALSE ELSE allProcessesExcluded,
                       ok)
       ELSE ExcludeProcessesWithNoWait(fdbProcessesToExclude,
              {e.processGroupID :
                 e \in selectedEntries(fdbProcessesToExcludeByClass,
                                       allowedExclusionsByClass)},
              allProcessesExcluded, ok)
  /\ UNCHANGED <<otherVars, config, dbPending, dbReady, dbCoordinators,
                 lockOwner, exclusions, coordinators,
                 fdbProcessesToExcludeByClass, ongoingExclusionsByClass,
                 allowedExclusionsByClass, validProcessesByClass, fnVars,
                 driverVars>>

\* lines 110-123: the exclusion strings and addresses of the coordinators
coordinatorsExclusionString(pgs, current) ==
  {GetExclusionString(id) : id \in current}
coordinatorsAddress(pgs, current) ==
  UNION {{AddressString(a) : a \in pgs[id].addresses} : id \in current}
\* lines 315-329 without the comparison: every exclusion counts
coordinatorAlwaysExcluded(pgs, current, excluded) == TRUE
\* lines 315-329 without the comparison: no exclusion counts
coordinatorNeverExcluded(pgs, current, excluded) == FALSE
\* lines 315-329
coordinatorExcluded(pgs, current, excluded) ==
  \E excludeProcess \in excluded :
     \/ excludeProcess \in coordinatorsAddress(pgs, current)
     \/ excludeProcess \in coordinatorsExclusionString(pgs, current)

\* coordinator.ChangeCoordinators: the process groups that can take over
coordinatorCandidates(pgs, excludedAddresses) ==
  {id \in ProcessGroupIDs :
     /\ pgs[id].processClass # "test"
     /\ ~pgs[id].markedForRemoval
     /\ GetExclusionString(id) \notin excludedAddresses
     /\ \A a \in pgs[id].addresses : AddressString(a) \notin excludedAddresses}

\* lines 346-355
finalRequeue(allDone) ==
  IF ~allDone
    THEN Requeue(FALSE, TRUE, AdditionalExclusionsDelay,
                 AdditionalExclusionsMessage)
    ELSE NilRequeue

\* lines 340-355 with the error of the status write dropped
statusWriteRequeueIgnoringError(updateOk, allDone) == finalRequeue(allDone)
\* lines 340-355: the requeue after r.updateOrApply
statusWriteRequeue(updateOk, allDone) ==
  IF updateOk THEN finalRequeue(allDone) ELSE Requeue(TRUE, TRUE, 0, "")

\* lines 315-355
Coordinators(changeOk, updateOk) ==
  /\ pc = "coordinators"
  /\ IF coordinatorExcluded(processGroups, coordinators,
                            fdbProcessesToExclude)
       THEN IF ~changeOk \/ coordinatorCandidates(processGroups,
                                                  dbExclusions) = {}
              THEN /\ calls' = Append(calls, Call("ChangeCoordinators", FALSE))
                   /\ Finish(Requeue(TRUE, TRUE, 0, ""), "ChangeCoordinators")
                   /\ UNCHANGED dbCoordinators
              ELSE /\ \E id \in coordinatorCandidates(processGroups,
                                                      dbExclusions) :
                        dbCoordinators' = {id}
                   /\ calls' = calls \o
                        <<Call("ChangeCoordinators", TRUE),
                          Call("updateOrApply", updateOk)>>
                   /\ Finish(statusWriteRequeue(updateOk,
                                                allProcessesExcluded),
                             IF updateOk THEN "none" ELSE "updateOrApply")
       ELSE /\ Finish(finalRequeue(allProcessesExcluded), "none")
            /\ UNCHANGED <<dbCoordinators, calls>>
  /\ UNCHANGED <<status, otherVars, config, processGroups, dbExclusions, dbPending, dbReady,
                 lockOwner, exclusions, secondsSinceLastRecovered,
                 coordinators,
                 fdbProcessesToExcludeByClass, ongoingExclusionsByClass,
                 allowedExclusionsByClass, validProcessesByClass,
                 fdbProcessesToExclude, excludedProcessGroups,
                 allProcessesExcluded, fnVars, driverVars>>

\* the sub-reconciler has returned; its locals are gone
Return ==
  /\ pc = "done"
  /\ pc' = "idle"
  /\ exclusions' = {}
  /\ secondsSinceLastRecovered' = 0
  /\ coordinators' = {}
  /\ failedCall' = "none"
  /\ fdbProcessesToExcludeByClass' = EmptyByClass
  /\ ongoingExclusionsByClass' = NoneByClass
  /\ allowedExclusionsByClass' = NoneByClass
  /\ validProcessesByClass' = NoneByClass
  /\ fdbProcessesToExclude' = {}
  /\ excludedProcessGroups' = {}
  /\ allProcessesExcluded' = TRUE
  /\ calls' = <<>>
  /\ result' = NilRequeue
  /\ UNCHANGED <<status, otherVars, config, processGroups, dbVars, fnVars, driverVars>>

Next ==
  \/ \E id \in ProcessGroupIDs : MarkForRemoval(id)
  \/ \E id \in ProcessGroupIDs : StatusExcluded(id)
  \/ \E id \in ProcessGroupIDs : ProcessMissing(id)
  \/ \E id \in ProcessGroupIDs : TimePasses(id)
  \/ \E id \in ProcessGroupIDs : PodRecreated(id)
  \/ \E fail \in StartFailures \cup {"none"},
        recovered \in {0, MinimumRecoveryTimeForExclusion} :
        Start(fail, recovered)
  \/ \E clientOk \in BOOLEAN, lockOk \in BOOLEAN : TakeLock(clientOk, lockOk)
  \/ \E fail \in ExcludeFailures \cup {"none"}, ok \in BOOLEAN :
        Exclude(fail, ok)
  \/ \E changeOk \in BOOLEAN, updateOk \in BOOLEAN :
        Coordinators(changeOk, updateOk)
  \/ Return

Spec == Init /\ [][Next]_vars

\* ------------------------------------- getAllowedExclusions on its own
Counts == (0 - MaxCount) .. MaxCount

IdleState ==
  /\ config = [synchronizationMode |-> "local",
               useLocalitiesForExclusion |-> FALSE,
               shouldUseLocks |-> TRUE, desiredFaultTolerance |-> 1,
               simulateTime |-> FALSE]
  /\ processGroups =
       [id \in ProcessGroupIDs |-> ProcessGroup(id, -1, {PrimaryAddress(id)})]
  /\ dbExclusions = {}
  /\ dbPending = {}
  /\ dbReady = {}
  /\ dbCoordinators = {1}
  /\ lockOwner = "none"
  /\ pc = "idle"
  /\ IdleLocals

InitAllowed ==
  /\ IdleState
  /\ fnIn \in Counts \X Counts \X Counts \X Counts
  /\ fnOut = -1
  /\ IdleDriver
  /\ IdleOthers

CallGetAllowedExclusions ==
  /\ fnOut = -1
  /\ fnOut' = getAllowedExclusions(fnIn[1], fnIn[2], fnIn[3], fnIn[4])
  /\ UNCHANGED <<status, otherVars, config, processGroups, dbVars, pc, localVars, fnIn,
                 driverVars>>

NextAllowed == CallGetAllowedExclusions

SpecAllowed == InitAllowed /\ [][NextAllowed]_vars

\* ------------------------------- FoundationDBClusterReconciler.Reconcile
\* the cluster generations run from 1 to MaxGeneration
MaxGeneration == 2
\* the requeue of a pass that is not fully reconciled and asked for no delay,
\* in seconds
DefaultRequeueDelay == 2
\* the requeue when the operator process could not be signalled, in seconds
ShutdownRequeueDelay == 5

\* the list with excludeProcesses and changeCoordinators in each other's place
subReconcilersSwapped ==
  <<"updateStatus", "updateLockConfiguration", "updateConfigMap",
    "checkClientCompatibility", "deletePodsForBuggification",
    "replaceMisconfiguredProcessGroups", "replaceFailedProcessGroups",
    "addProcessGroups", "addServices", "addPVCs", "addPods",
    "generateInitialClusterFile", "removeIncompatibleProcesses",
    "updateSidecarVersions", "updatePodConfig", "updateMetadata",
    "updateDatabaseConfiguration", "chooseRemovals", "changeCoordinators",
    "excludeProcesses", "bounceProcesses", "maintenanceModeChecker",
    "updatePods", "removeProcessGroups", "removeServices", "updateStatus">>

\* the ordered list of all sub-reconcilers of the cluster controller
subReconcilers ==
  <<"updateStatus", "updateLockConfiguration", "updateConfigMap",
    "checkClientCompatibility", "deletePodsForBuggification",
    "replaceMisconfiguredProcessGroups", "replaceFailedProcessGroups",
    "addProcessGroups", "addServices", "addPVCs", "addPods",
    "generateInitialClusterFile", "removeIncompatibleProcesses",
    "updateSidecarVersions", "updatePodConfig", "updateMetadata",
    "updateDatabaseConfiguration", "chooseRemovals", "excludeProcesses",
    "changeCoordinators", "bounceProcesses", "maintenanceModeChecker",
    "updatePods", "removeProcessGroups", "removeServices", "updateStatus">>
addPodsReconciler == "addPods"

\* the delays a requeue asks for, in seconds
Delays == {0, RecoveryRequeueDelay, AdditionalExclusionsDelay}
\* what a sub-reconciler returns: nil, a delayed requeue with or without an
\* error, an error that is not delayed, or a requeue without an error that
\* is not delayed
Requeues ==
  {NilRequeue}
    \cup {Requeue(err, TRUE, d, "") : err \in BOOLEAN, d \in Delays}
    \cup {Requeue(TRUE, FALSE, 0, "")}
    \cup {Requeue(FALSE, FALSE, d, "") : d \in Delays}

\* lines 659-675 with every requeue ending the pass
endsPassOnAnyRequeue(r) == ~r.isNil
\* lines 659-675: the requeue makes Reconcile return
endsPass(r) == ~r.isNil /\ ~r.delayedRequeue

\* lines 669-671 keeping the delay asked for last
aggregateDelayLast(duration, r) == r.delay
\* lines 669-671
aggregateDelay(duration, r) ==
  IF duration < r.delay THEN r.delay ELSE duration

\* line 678 without the comparison of the generations
notFullyReconciledDelayedOnly(reconciled, original, delayed) == delayed
\* line 678
notFullyReconciled(reconciled, original, delayed) ==
  reconciled < original \/ delayed

\* processRequeue: the error is handed to the caller, a requeue without an
\* error asks for its delay
processRequeue(r) ==
  IF r.curError THEN Result(0, TRUE) ELSE Result(r.delay, FALSE)

\* the calls of lines 493-555 that can return an error; versionNotSupported
\* stands for VersionSupported answering false
ReconcileFailures ==
  {"Get", "NormalizeClusterSpec", "Validate", "getAdminClient",
   "VersionSupported", "versionNotSupported"}
\* what can go wrong in lines 568-637: the status cannot be fetched, and
\* then the signal to shut down cannot be sent
StatusFailures == {"getStatus", "Signal"}

\* a call Reconcile makes ahead of the loop, with its outcome
Made(name, outcome) == [name |-> name, outcome |-> outcome]
\* lines 531-555: the checks of the cluster spec, in the order of the code
SpecChecks ==
  <<"NormalizeClusterSpec", "Validate", "getAdminClient", "VersionSupported">>
\* the checks of SpecChecks made when check number n is the last one made
\* and has this outcome
checksUpTo(n, outcome) ==
  [i \in 1 .. n |->
     Made(SpecChecks[i], IF i = n THEN outcome ELSE "ok")]
\* lines 493-555: the calls made when fail is what goes wrong; the failure
\* of Validate is recorded as an event at line 538
checksMade(fail) ==
  <<Made("Get", "ok")>> \o
    (CASE fail = "NormalizeClusterSpec" -> checksUpTo(1, "error")
       [] fail = "Validate" ->
            Append(checksUpTo(2, "error"), Made("Recorder.Event", "warning"))
       [] fail = "getAdminClient" -> checksUpTo(3, "error")
       [] fail = "VersionSupported" -> checksUpTo(4, "error")
       [] fail = "versionNotSupported" -> checksUpTo(4, "unsupported")
       [] OTHER -> checksUpTo(4, "ok"))

\* lines 531-555 going on after a spec that is not valid
rejectedOnGetOnly(fail) == fail = "Get"
\* lines 493-555: what goes wrong makes Reconcile return the error
rejected(fail) == fail \in ReconcileFailures

Clusters ==
  {Cluster(exists, skip, useDNS, generation, reconciled) :
     exists \in BOOLEAN, skip \in BOOLEAN, useDNS \in BOOLEAN,
     generation \in 1 .. MaxGeneration, reconciled \in 0 .. MaxGeneration}

InitReconcile ==
  /\ IdleState
  /\ fnIn = <<0, 0, 0, 0>>
  /\ fnOut = 0
  /\ cluster \in {c \in Clusters : c.reconciled \in {c.generation - 1,
                                                      c.generation}}
  /\ IdlePass
  /\ IdleOthers

\* Reconcile returns
Returns(res) ==
  /\ phase' = "returned"
  /\ reconcileResult' = res

\* lines 568-637: the calls made for the status when it is cached
statusCallsMade(cacheStatus, useDNS, fail) ==
  IF ~cacheStatus THEN <<>>
  ELSE IF fail = "getStatus" THEN <<Made("getStatus", "error")>>
  ELSE IF fail = "Signal"
    THEN IF useDNS
           THEN <<Made("getStatus", "error"), Made("Signal", "error")>>
           ELSE <<Made("getStatus", "error")>>
  ELSE <<Made("getStatus", "ok")>>

\* lines 487-649: everything ahead of the loop; with DNS names in the
\* cluster file addPods runs here and returns pre
ReconcileStart(fail, pre, cacheStatus) ==
  /\ phase = "idle"
  /\ IF fail = "Get"
       THEN /\ startCalls' = <<Made("Get", "error")>>
            /\ Returns(Result(0, TRUE))
            /\ UNCHANGED <<index, ran, preReq, originalGeneration>>
     ELSE IF ~cluster.exists
       THEN /\ startCalls' = <<Made("Get", "notFound")>>
            /\ Returns(Result(0, FALSE))
            /\ UNCHANGED <<index, ran, preReq, originalGeneration>>
     ELSE IF cluster.skip
       THEN /\ startCalls' = <<Made("Get", "ok")>>
            /\ Returns(Result(0, FALSE))
            /\ UNCHANGED <<index, ran, preReq, originalGeneration>>
     ELSE IF rejected(fail)
       THEN /\ startCalls' = checksMade(fail)
            /\ Returns(Result(0, TRUE))
            /\ UNCHANGED <<index, ran, preReq, originalGeneration>>
     ELSE IF cluster.useDNSInClusterFile /\ endsPass(pre)
       THEN /\ startCalls' = checksMade(fail)
            /\ ran' = <<addPodsReconciler>>
            /\ preReq' = pre
            /\ Returns(processRequeue(pre))
            /\ UNCHANGED <<index, originalGeneration>>
     ELSE IF cluster.useDNSInClusterFile /\ cacheStatus /\ fail = "Signal"
       THEN /\ startCalls' =
                 checksMade(fail) \o statusCallsMade(cacheStatus, TRUE, fail)
            /\ ran' = <<addPodsReconciler>>
            /\ preReq' = pre
            /\ Returns(Result(ShutdownRequeueDelay, TRUE))
            /\ UNCHANGED <<index, originalGeneration>>
     ELSE /\ startCalls' =
               checksMade(fail) \o
                 statusCallsMade(cacheStatus, cluster.useDNSInClusterFile, fail)
          /\ ran' = IF cluster.useDNSInClusterFile
                      THEN <<addPodsReconciler>> ELSE <<>>
          /\ preReq' = IF cluster.useDNSInClusterFile THEN pre
                       ELSE NilRequeue
          /\ originalGeneration' = cluster.generation
          /\ index' = 1
          /\ phase' = "pipeline"
          /\ UNCHANGED reconcileResult
  /\ UNCHANGED <<status, otherVars, config, processGroups, dbVars, pc, localVars,
                 fnVars, cluster, lastReq, requested, delayedRequeueDuration,
                 delayedRequeue>>

\* lines 651-676: one iteration of the loop; updateStatus sets the
\* reconciled generation of the status
RunSubReconciler(r, reconciled) ==
  /\ phase = "pipeline"
  /\ index <= Len(subReconcilers)
  /\ ran' = Append(ran, subReconcilers[index])
  /\ lastReq' = r
  /\ cluster' = IF subReconcilers[index] = "updateStatus" /\ r.isNil
                  THEN [cluster EXCEPT !.reconciled = reconciled]
                  ELSE cluster
  /\ IF r.isNil
       THEN /\ index' = index + 1
            /\ UNCHANGED <<phase, requested, delayedRequeueDuration,
                           delayedRequeue, reconcileResult>>
     ELSE IF ~endsPass(r)
       THEN /\ delayedRequeueDuration' =
                 aggregateDelay(delayedRequeueDuration, r)
            /\ delayedRequeue' = TRUE
            /\ requested' = requested \cup {r.delay}
            /\ index' = index + 1
            /\ UNCHANGED <<phase, reconcileResult>>
     ELSE /\ Returns(processRequeue(r))
          /\ UNCHANGED <<index, requested, delayedRequeueDuration,
                         delayedRequeue>>
  /\ UNCHANGED <<status, otherVars, config, processGroups, dbVars, pc, localVars, fnVars,
                 startCalls, preReq, originalGeneration>>

\* lines 678-706: after the loop
ReconcileEnd ==
  /\ phase = "pipeline"
  /\ index > Len(subReconcilers)
  /\ IF notFullyReconciled(cluster.reconciled, originalGeneration,
                           delayedRequeue)
       THEN Returns(Result(IF delayedRequeueDuration = 0
                             THEN DefaultRequeueDelay
                             ELSE delayedRequeueDuration, FALSE))
       ELSE Returns(Result(0, FALSE))
  /\ UNCHANGED <<status, otherVars, config, processGroups, dbVars, pc, localVars, fnVars,
                 cluster, index, ran, startCalls, lastReq, preReq, requested,
                 originalGeneration, delayedRequeueDuration, delayedRequeue>>

\* Reconcile has returned; its locals are gone
ReconcileReturn ==
  /\ phase = "returned"
  /\ phase' = "idle"
  /\ index' = 0
  /\ ran' = <<>>
  /\ startCalls' = <<>>
  /\ lastReq' = NilRequeue
  /\ preReq' = NilRequeue
  /\ requested' = {}
  /\ originalGeneration' = 0
  /\ delayedRequeueDuration' = 0
  /\ delayedRequeue' = FALSE
  /\ reconcileResult' = NoResult
  /\ UNCHANGED <<status, otherVars, config, processGroups, dbVars, pc, localVars, fnVars,
                 cluster>>

NextReconcile ==
  \/ \E fail \in ReconcileFailures \cup StatusFailures \cup {"none"},
        pre \in Requeues, cacheStatus \in BOOLEAN :
        ReconcileStart(fail, pre, cacheStatus)
  \/ \E r \in Requeues, reconciled \in {cluster.reconciled, cluster.generation} :
        RunSubReconciler(r, reconciled)
  \/ ReconcileEnd
  \/ ReconcileReturn

SpecReconcile == InitReconcile /\ [][NextReconcile]_vars

\* ------------------------------------------- addPVCs and updateConfigMap
\* a step is run at most this many times in a row
MaxRuns == 2
\* the process groups that can be marked for removal and excluded here
RemovableProcessGroupIDs == {3}
\* the PVCs that somebody else can delete
DeletablePVCs == {2}
\* the labels and annotations a config map can carry
LabelNames == {"l"}
AnnotationNames == {"a"}
\* the config maps internal.GetConfigMap builds here
DesiredConfigMaps ==
  {ConfigMap(TRUE, 1, {}, {}), ConfigMap(TRUE, 1, {"l"}, {}),
   ConfigMap(TRUE, 2, {}, {"a"})}
\* the config maps somebody else can put in place of the one in the store;
\* NoConfigMap stands for deleting it
ForeignConfigMaps ==
  {NoConfigMap, ConfigMap(TRUE, 2, LabelNames, AnnotationNames)}

\* internal.GetPvc: the name of the PVC of the process group, 0 for the nil
\* it returns for a process group of a class that has no volume
NoPvc == 0
GetPvc(processGroup) ==
  IF processGroup.processClass \in {"storage", "log", "transaction"}
    THEN processGroup.id ELSE NoPvc

\* add_pvcs.go 65 and 73 with an error that is not delayed
pvcStoreErrorTerminal == Requeue(TRUE, FALSE, 0, "")
\* add_pvcs.go 65 and 73: a call to the resource store failed
pvcStoreError == Requeue(TRUE, TRUE, 0, "")
\* add_pvcs.go 54: internal.GetPvc failed
pvcBuildError == Requeue(TRUE, FALSE, 0, "")
\* update_config_map.go 49, 62, 67, 81: any failure
configMapError == Requeue(TRUE, FALSE, 0, "")

\* what a run of a step leaves behind: the store after it, the mutating
\* calls it issued, its requeue and the call that failed
StepOut(store, issued, req, failed) ==
  [store |-> store, calls |-> issued, req |-> req, failed |-> failed]

\* add_pvcs.go 62-64 taking every PVC for missing
pvcNotFoundAlways(name, store) == TRUE
\* add_pvcs.go 62-64: r.Get answers NotFound
pvcNotFound(name, store) == name \notin store

\* add_pvcs.go 47-78: the loop from process group i on; fail names the call
\* that returns an error and the process group it is made for
RECURSIVE addPVCsLoop(_, _, _, _, _)
addPVCsLoop(i, pgs, store, issued, fail) ==
  IF i > Len(ProcessGroupClasses)
    THEN StepOut(store, issued, NilRequeue, <<"none", 0>>)
  ELSE IF pgs[i].markedForRemoval /\ pgs[i].excluded
    THEN addPVCsLoop(i + 1, pgs, store, issued, fail)
  ELSE IF fail = <<"GetPvc", i>>
    THEN StepOut(store, issued, pvcBuildError, fail)
  ELSE IF GetPvc(pgs[i]) = NoPvc
    THEN addPVCsLoop(i + 1, pgs, store, issued, fail)
  ELSE IF fail = <<"Get", i>>
    THEN StepOut(store, issued, pvcStoreError, fail)
  ELSE IF ~pvcNotFound(GetPvc(pgs[i]), store)
    THEN addPVCsLoop(i + 1, pgs, store, issued, fail)
  ELSE IF fail = <<"Create", i>>
    THEN StepOut(store, Append(issued, Call("Create", GetPvc(pgs[i]))),
                 pvcStoreError, fail)
  ELSE addPVCsLoop(i + 1, pgs, store \cup {GetPvc(pgs[i])},
                   Append(issued, Call("Create", GetPvc(pgs[i]))), fail)

\* add_pvcs.go 40-79
addPVCs(pgs, store, fail) == addPVCsLoop(1, pgs, store, <<>>, fail)

\* internal.MergeLabels and internal.MergeAnnotations: the entries of the
\* desired metadata are put into the existing one
mergeMap(target, desired) == target \cup desired
\* update_config_map.go 70-73
metadataCorrect(existing, desired) ==
  /\ desired.labels \subseteq existing.labels
  /\ desired.annotations \subseteq existing.annotations

\* update_config_map.go 75 with an update in every run
needsUpdateAlways(existing, desired) == TRUE
\* update_config_map.go 75
needsUpdate(existing, desired) ==
  existing.data # desired.data \/ ~metadataCorrect(existing, desired)

\* update_config_map.go 40-86; fail names the call that returns an error
updateConfigMap(existing, desired, fail) ==
  LET merged == ConfigMap(TRUE, desired.data,
                          mergeMap(existing.labels, desired.labels),
                          mergeMap(existing.annotations, desired.annotations))
  IN
  IF fail = "GetConfigMap"
    THEN StepOut(existing, <<>>, configMapError, <<fail, 0>>)
  ELSE IF fail = "Get"
    THEN StepOut(existing, <<>>, configMapError, <<fail, 0>>)
  ELSE IF ~existing.exists
    THEN IF fail = "Create"
           THEN StepOut(existing, <<Call("Create", "configMap")>>,
                        configMapError, <<fail, 0>>)
           ELSE StepOut(desired, <<Call("Create", "configMap")>>,
                        NilRequeue, <<"none", 0>>)
  ELSE IF needsUpdate(existing, desired)
    THEN IF fail = "Update"
           THEN StepOut(existing, <<Call("Update", "configMap")>>,
                        configMapError, <<fail, 0>>)
           ELSE StepOut(merged, <<Call("Update", "configMap")>>,
                        NilRequeue, <<"none", 0>>)
  ELSE StepOut(existing, <<>>, NilRequeue, <<"none", 0>>)

\* the record kept of a run: the step, the store it found, and its outcome
Run(step, before, out) ==
  [step |-> step, before |-> before, calls |-> out.calls, req |-> out.req,
   failed |-> out.failed]

AddPVCsFailures ==
  {<<call, id>> : call \in {"GetPvc", "Get", "Create"}, id \in ProcessGroupIDs}
UpdateConfigMapFailures == {"GetConfigMap", "Get", "Create", "Update"}

InitStore ==
  /\ IdleState
  /\ fnIn = <<0, 0, 0, 0>>
  /\ fnOut = 0
  /\ IdleDriver
  /\ pvcs = {}
  /\ existingConfigMap = NoConfigMap
  /\ desiredConfigMap \in DesiredConfigMaps
  /\ runs = <<>>
  /\ IdleInstances
  /\ IdleStatus

\* Reconcile runs addPVCs
RunAddPVCs(fail) ==
  /\ Len(runs) < MaxRuns
  /\ LET out == addPVCs(processGroups, pvcs, fail)
     IN /\ pvcs' = out.store
        /\ runs' = Append(runs, Run("addPVCs", pvcs, out))
  /\ UNCHANGED <<status, config, processGroups, dbVars, pc, localVars, fnVars,
                 driverVars, instances, existingConfigMap, desiredConfigMap>>

\* Reconcile runs updateConfigMap
RunUpdateConfigMap(fail) ==
  /\ Len(runs) < MaxRuns
  /\ LET out == updateConfigMap(existingConfigMap, desiredConfigMap, fail)
     IN /\ existingConfigMap' = out.store
        /\ runs' = Append(runs, Run("updateConfigMap", existingConfigMap, out))
  /\ UNCHANGED <<status, config, processGroups, dbVars, pc, localVars, fnVars,
                 driverVars, instances, pvcs, desiredConfigMap>>

\* a process group is marked for removal and gets fully excluded
ProcessGroupExcluded(id) ==
  /\ ~processGroups[id].excluded
  /\ processGroups' = [processGroups EXCEPT ![id].markedForRemoval = TRUE,
                                            ![id].excluded = TRUE]
  /\ runs' = <<>>
  /\ UNCHANGED <<status, config, dbVars, pc, localVars, fnVars, driverVars, instances, pvcs,
                 existingConfigMap, desiredConfigMap>>

\* somebody else deletes a PVC
PVCDeleted(name) ==
  /\ name \in pvcs
  /\ pvcs' = pvcs \ {name}
  /\ runs' = <<>>
  /\ UNCHANGED <<status, config, processGroups, dbVars, pc, localVars, fnVars,
                 driverVars, instances, existingConfigMap, desiredConfigMap>>

\* somebody else changes or deletes the config map
ConfigMapChanged(configMap) ==
  /\ existingConfigMap.exists
  /\ configMap # existingConfigMap
  /\ existingConfigMap' = configMap
  /\ runs' = <<>>
  /\ UNCHANGED <<status, config, processGroups, dbVars, pc, localVars, fnVars,
                 driverVars, instances, pvcs, desiredConfigMap>>

\* the cluster spec changes and with it the config map it asks for
SpecChanged(configMap) ==
  /\ configMap # desiredConfigMap
  /\ desiredConfigMap' = configMap
  /\ runs' = <<>>
  /\ UNCHANGED <<status, config, processGroups, dbVars, pc, localVars, fnVars,
                 driverVars, instances, pvcs, existingConfigMap>>

\* the runs are over and forgotten
RunsReturn ==
  /\ runs # <<>>
  /\ runs' = <<>>
  /\ UNCHANGED <<status, config, processGroups, dbVars, pc, localVars, fnVars,
                 driverVars, instances, pvcs, existingConfigMap, desiredConfigMap>>

NextStore ==
  \/ \E fail \in AddPVCsFailures \cup {<<"none", 0>>} : RunAddPVCs(fail)
  \/ \E fail \in UpdateConfigMapFailures \cup {"none"} :
        RunUpdateConfigMap(fail)
  \/ \E id \in RemovableProcessGroupIDs : ProcessGroupExcluded(id)
  \/ \E name \in DeletablePVCs : PVCDeleted(name)
  \/ \E configMap \in ForeignConfigMaps : ConfigMapChanged(configMap)
  \/ \E configMap \in DesiredConfigMaps : SpecChanged(configMap)
  \/ RunsReturn

SpecStore == InitStore /\ [][NextStore]_vars

\* ---------------- excludeProcesses.reconcile and the status of Reconcile
\* Reconcile fetches the status once for all sub-reconcilers when cacheStatus
\* is set and hands nil to them when it is not or when the fetch failed; a
\* sub-reconciler that is handed nil fetches a status for itself.

\* the process groups that get marked for removal
StatusMarkable == {1, 2, 4}
\* the seconds since the last recovery a fetched status can hold
RecoverySeconds == {0, MinimumRecoveryTimeForExclusion}
\* the calls of a pass that can fail
StatusPassFailures == {"GetStatus", "GetExclusions"}

InitStatus ==
  /\ config \in [synchronizationMode : {"local", "global"},
                 useLocalitiesForExclusion : {FALSE},
                 shouldUseLocks : {TRUE},
                 desiredFaultTolerance : {1},
                 simulateTime : {FALSE}]
  /\ processGroups =
       [id \in ProcessGroupIDs |-> ProcessGroup(id, -1, {PrimaryAddress(id)})]
  /\ dbExclusions = {}
  /\ dbPending = {}
  /\ dbReady = {}
  /\ dbCoordinators = {1}
  /\ lockOwner = "none"
  /\ pc = "idle"
  /\ IdleLocals
  /\ fnIn = <<0, 0, 0, 0>>
  /\ fnOut = 0
  /\ IdleDriver
  /\ IdleStore
  /\ IdleInstances
  /\ IdleStatus

\* Reconcile lines 568-576: a pass of Reconcile begins and fetches the
\* status for its sub-reconcilers, or not
FetchStatus(cacheStatus, ok, seconds) ==
  /\ pc = "idle"
  /\ status' = IF cacheStatus /\ ok THEN seconds ELSE NoStatus
  /\ UNCHANGED <<otherVars, config, processGroups, dbVars, pc, localVars,
                 fnVars, driverVars>>

NextStatus ==
  \/ \E id \in StatusMarkable : MarkForRemoval(id)
  \/ \E cacheStatus \in BOOLEAN, ok \in BOOLEAN, seconds \in RecoverySeconds :
        FetchStatus(cacheStatus, ok, seconds)
  \/ \E fail \in StatusPassFailures \cup {"none"},
        recovered \in RecoverySeconds : Start(fail, recovered)
  \/ \E clientOk \in BOOLEAN, lockOk \in BOOLEAN : TakeLock(clientOk, lockOk)
  \/ \E ok \in BOOLEAN : Exclude("none", ok)
  \/ \E changeOk \in BOOLEAN, updateOk \in BOOLEAN :
        Coordinators(changeOk, updateOk)
  \/ Return

SpecStatus == InitStatus /\ [][NextStatus]_vars

\* ------------------ excludeProcesses.reconcile run by several instances
\* One pass of an instance is split at its calls to the database and to the
\* lock client: it reads the pending map (lines 56-87), registers in it
\* (89-106), reads the ready map (108-151), registers in it (153-245),
\* takes the lock (247-251), reads both maps again (253-295), excludes
\* (297-313) and changes the
\* coordinators (315-355).  The instances share the cluster status, the
\* database and the lock.

\* the calls a pass of an instance can find failing
InstanceFailures ==
  {"UpdateReadyForExclusion", "AllProcessesReadyForExclusion"}
\* the entries the pending and the ready map hold when the instances start:
\* a process group that no instance looks at as a candidate
EntriesAtStart == {6}
\* the process groups marked for removal when the instances start
MarkedAtStart == {{1}}

\* line 981 with the lock taken whatever the cluster says
locksAlwaysInUse(cfg) == TRUE
\* line 981 with the lock never taken
locksNeverInUse(cfg) == FALSE
\* line 981: cluster.ShouldUseLocks()
locksInUse(cfg) == cfg.shouldUseLocks

\* LockClient.TakeLock: the lock is given to an instance when nobody else
\* holds it
lockGranted(owner, i) == owner \in {"none", i}
\* LockClient.ReleaseLock: the lock is given up by the instance that holds it
lockReleased(owner, i) == IF owner = i THEN "none" ELSE owner

\* lines 247-251 going on after a lock that was not taken
takeLockRequeueIgnored(err) == NilRequeue
\* lines 247-251: the requeue after takeLock
takeLockRequeue(err) ==
  IF err THEN Requeue(TRUE, TRUE, 0, "") ELSE NilRequeue

\* lines 253-295 passing on the locally computed set in every mode
processesToExcludeLocal(cfg, pgs, local, pending, ready) == local
\* lines 253-295: the addresses handed to the exclude call; in global mode
\* they come from the pending and ready maps read after the lock
processesToExclude(cfg, pgs, local, pending, ready) ==
  IF cfg.synchronizationMode = "global"
    THEN GetAddressesFromCoordinationState(pgs,
           AllProcessesReadyForExclusion(pending, ready),
           cfg.useLocalitiesForExclusion)
    ELSE local

\* lines 56-245 as the instance sees them: with the exclusion list, the
\* coordinators and the pending map it read, and this ready map
startOf(cfg, pgs, inst, ready) ==
  reconcileStart(cfg, pgs, inst.exclusions, inst.pendingRead, ready,
                 inst.coordinators, inst.fail, inst.recovered)

InitInstances ==
  /\ config \in {c \in [synchronizationMode : {"local", "global"},
                        useLocalitiesForExclusion : {FALSE},
                        shouldUseLocks : BOOLEAN,
                        desiredFaultTolerance : {1},
                        simulateTime : {FALSE}] : TRUE}
  /\ \E markedIDs \in MarkedAtStart :
       processGroups =
         [id \in ProcessGroupIDs |->
            [ProcessGroup(id, -1, {PrimaryAddress(id)})
               EXCEPT !.markedForRemoval = id \in markedIDs]]
  /\ dbExclusions = {}
  /\ dbPending = EntriesAtStart
  /\ dbReady = EntriesAtStart
  /\ dbCoordinators = {1}
  /\ lockOwner = "none"
  /\ pc = "idle"
  /\ IdleLocals
  /\ fnIn = <<0, 0, 0, 0>>
  /\ fnOut = 0
  /\ IdleDriver
  /\ IdleStore
  /\ IdleInstances
  /\ IdleStatus

\* the locals of instance i become inst
Becomes(i, inst) == instances' = [instances EXCEPT ![i] = inst]
\* the pass of instance i returns
Finishes(i, req, failed, issued) ==
  Becomes(i, [instances[i] EXCEPT !.pc = "done", !.result = req,
                                  !.failed = failed, !.calls = issued])

\* lines 56-87: the instance reads the status and the pending map
InstanceStart(i, fail, recovered) ==
  /\ instances[i].pc = "idle"
  /\ LET global == config.synchronizationMode = "global"
         out == reconcileStart(config, processGroups, dbExclusions, {}, {},
                               dbCoordinators, fail, recovered)
     IN IF \/ fail \in {"getAdminClient", "GetStatus", "GetExclusions"}
           \/ global /\ fail = "GetPendingForExclusion"
          THEN Becomes(i, [IdleInstance EXCEPT !.pc = "done", !.fail = fail,
                                               !.result = out.result,
                                               !.failed = out.failed])
          ELSE Becomes(i, [IdleInstance EXCEPT
                             !.pc = "registerPending", !.fail = fail,
                             !.recovered = recovered,
                             !.exclusions = dbExclusions,
                             !.coordinators = dbCoordinators,
                             !.pendingRead =
                                IF global THEN dbPending ELSE {}])
  /\ UNCHANGED <<status, config, processGroups, dbVars, pc, localVars, fnVars,
                 driverVars, storeVars>>

\* lines 89-106: getProcessesToExclude and UpdatePendingForExclusion
RegisterPending(i) ==
  /\ instances[i].pc = "registerPending"
  /\ LET global == config.synchronizationMode = "global"
         out == startOf(config, processGroups, instances[i], {})
     IN IF /\ out.pc = "done"
           /\ \/ out.failed = "UpdatePendingForExclusion"
              \/ out.failed = "none" /\ out.result.isNil
          THEN /\ Finishes(i, out.result, out.failed, out.calls)
               /\ UNCHANGED dbPending
          ELSE /\ dbPending' = dbPending \cup out.pendingUpdate
               /\ Becomes(i, [instances[i] EXCEPT
                    !.pc = "readReady",
                    !.pendingUpdate = out.pendingUpdate,
                    !.calls =
                       IF global
                         THEN <<Call("UpdatePendingForExclusion",
                                     out.pendingUpdate)>>
                         ELSE <<>>])
  /\ UNCHANGED <<status, config, processGroups, dbExclusions, dbReady, dbCoordinators,
                 lockOwner, pc, localVars, fnVars, driverVars, storeVars>>

\* lines 108-151: the recovery state, the process counts, the ready map
ReadReady(i) ==
  /\ instances[i].pc = "readReady"
  /\ LET global == config.synchronizationMode = "global"
         out == startOf(config, processGroups, instances[i], {})
     IN IF out.failed \in {RecoveryCheck, "GetProcessCountsWithDefaults",
                           "GetReadyForExclusion"}
          THEN Finishes(i, out.result, out.failed, instances[i].calls)
          ELSE Becomes(i, [instances[i] EXCEPT
                 !.pc = "registerReady",
                 !.readyRead = IF global THEN dbReady ELSE {}])
  /\ UNCHANGED <<status, config, processGroups, dbVars, pc, localVars, fnVars,
                 driverVars, storeVars>>

\* lines 153-245: the loop over the classes and UpdateReadyForExclusion
RegisterReady(i) ==
  /\ instances[i].pc = "registerReady"
  /\ LET out == startOf(config, processGroups, instances[i],
                        instances[i].readyRead)
     IN /\ dbReady' = dbReady \cup out.readyUpdate
        /\ Becomes(i, [instances[i] EXCEPT
             !.pc = out.pc, !.result = out.result, !.failed = out.failed,
             !.readyUpdate = out.readyUpdate, !.toExclude = out.toExclude,
             !.allExcluded = out.allExcluded, !.calls = out.calls])
  /\ UNCHANGED <<status, config, processGroups, dbExclusions, dbPending,
                 dbCoordinators, lockOwner, pc, localVars, fnVars, driverVars,
                 storeVars>>

\* lines 247-251 with FoundationDBClusterReconciler.takeLock
InstanceTakeLock(i, clientOk, lockOk) ==
  /\ instances[i].pc = "lock"
  /\ LET called == locksInUse(config) /\ clientOk
         taken == called /\ lockOk /\ lockGranted(lockOwner, i)
         err == locksInUse(config) /\ ~taken
         req == takeLockRequeue(err)
         issued == IF called
                     THEN Append(instances[i].calls, Call("TakeLock", taken))
                     ELSE instances[i].calls
     IN /\ lockOwner' = IF taken THEN i ELSE lockOwner
        /\ IF req.isNil
             THEN Becomes(i, [instances[i] EXCEPT
                    !.pc = "exclude", !.lockTaken = taken,
                    !.calls = issued])
             ELSE Finishes(i, req,
                           IF clientOk THEN "TakeLock" ELSE "getLockClient",
                           issued)
  /\ UNCHANGED <<status, config, processGroups, dbExclusions, dbPending, dbReady,
                 dbCoordinators, pc, localVars, fnVars, driverVars,
                 storeVars>>

\* lines 253-295: in global mode the maps are read again, now without a
\* prefix, and the addresses to exclude are taken from them
InstanceReadMaps(i) ==
  /\ instances[i].pc = "exclude"
  /\ LET inst == instances[i]
         global == config.synchronizationMode = "global"
     IN IF global /\ inst.fail \in ExcludeFailures
          THEN Finishes(i, Requeue(TRUE, TRUE, 0, ""), inst.fail, inst.calls)
          ELSE Becomes(i, [inst EXCEPT
                 !.pc = "call",
                 !.pendingReread = IF global THEN dbPending ELSE {},
                 !.readyReread = IF global THEN dbReady ELSE {}])
  /\ UNCHANGED <<status, config, processGroups, dbVars, pc, localVars, fnVars,
                 driverVars, storeVars>>

\* lines 297-313: the exclude call
InstanceExclude(i, ok) ==
  /\ instances[i].pc = "call"
  /\ LET inst == instances[i]
         global == config.synchronizationMode = "global"
         allowedExclusions ==
           AllProcessesReadyForExclusion(inst.pendingReread,
                                         inst.readyReread)
         addresses == processesToExclude(config, processGroups,
                                         inst.toExclude, inst.pendingReread,
                                         inst.readyReread)
         allDone ==
           IF global /\ Cardinality(allowedExclusions)
                          # Cardinality(inst.readyReread)
             THEN FALSE ELSE inst.allExcluded
         issued ==
           Append(inst.calls, Call("ExcludeProcessesWithNoWait", addresses))
     IN IF ok
          THEN /\ dbExclusions' = dbExclusions \cup addresses
               /\ Becomes(i, [inst EXCEPT
                    !.pc = "coordinators", !.toExclude = addresses,
                    !.allExcluded = allDone, !.calls = issued])
          ELSE /\ Becomes(i, [inst EXCEPT
                    !.pc = "done", !.toExclude = addresses,
                    !.allExcluded = allDone, !.calls = issued,
                    !.result = Requeue(TRUE, TRUE, 0, ""),
                    !.failed = "ExcludeProcessesWithNoWait"])
               /\ UNCHANGED dbExclusions
  /\ UNCHANGED <<status, config, processGroups, dbPending, dbReady, dbCoordinators,
                 lockOwner, pc, localVars, fnVars, driverVars, storeVars>>

\* lines 315-355
InstanceCoordinators(i, changeOk, updateOk) ==
  /\ instances[i].pc = "coordinators"
  /\ LET inst == instances[i]
         candidates == coordinatorCandidates(processGroups, dbExclusions)
     IN IF coordinatorExcluded(processGroups, inst.coordinators,
                               inst.toExclude)
          THEN IF ~changeOk \/ candidates = {}
                 THEN /\ Finishes(i, Requeue(TRUE, TRUE, 0, ""),
                                  "ChangeCoordinators",
                                  Append(inst.calls,
                                         Call("ChangeCoordinators", FALSE)))
                      /\ UNCHANGED dbCoordinators
                 ELSE /\ \E id \in candidates : dbCoordinators' = {id}
                      /\ Finishes(i,
                           statusWriteRequeue(updateOk, inst.allExcluded),
                           IF updateOk THEN "none" ELSE "updateOrApply",
                           inst.calls \o <<Call("ChangeCoordinators", TRUE),
                                           Call("updateOrApply", updateOk)>>)
          ELSE /\ Finishes(i, finalRequeue(inst.allExcluded), "none",
                           inst.calls)
               /\ UNCHANGED dbCoordinators
  /\ UNCHANGED <<status, config, processGroups, dbExclusions, dbPending, dbReady,
                 lockOwner, pc, localVars, fnVars, driverVars, storeVars>>

\* lines 994-1005: FoundationDBClusterReconciler.releaseLock, called by an
\* instance between its passes
InstanceReleaseLock(i, clientOk, ok) ==
  /\ instances[i].pc = "idle"
  /\ lockOwner' = IF clientOk /\ ok THEN lockReleased(lockOwner, i)
                  ELSE lockOwner
  /\ Becomes(i, [IdleInstance EXCEPT
       !.pc = "released",
       !.calls = IF clientOk THEN <<Call("ReleaseLock", ok)>> ELSE <<>>,
       !.failed = IF ~clientOk THEN "getLockClient"
                  ELSE IF ~ok THEN "ReleaseLock" ELSE "none"])
  /\ UNCHANGED <<status, config, processGroups, dbExclusions, dbPending, dbReady,
                 dbCoordinators, pc, localVars, fnVars, driverVars,
                 storeVars>>

\* the pass or the call of releaseLock has returned; the locals are gone
InstanceReturn(i) ==
  /\ instances[i].pc \in {"done", "released"}
  /\ Becomes(i, IdleInstance)
  /\ UNCHANGED <<status, config, processGroups, dbVars, pc, localVars, fnVars,
                 driverVars, storeVars>>

NextInstances ==
  \E i \in Instances :
    \/ \E fail \in InstanceFailures \cup {"none"} :
          InstanceStart(i, fail, MinimumRecoveryTimeForExclusion)
    \/ RegisterPending(i)
    \/ ReadReady(i)
    \/ RegisterReady(i)
    \/ \E clientOk \in BOOLEAN, lockOk \in BOOLEAN :
          InstanceTakeLock(i, clientOk, lockOk)
    \/ InstanceReadMaps(i)
    \/ \E ok \in BOOLEAN : InstanceExclude(i, ok)
    \/ \E changeOk \in BOOLEAN, updateOk \in BOOLEAN :
          InstanceCoordinators(i, changeOk, updateOk)
    \/ \E clientOk \in BOOLEAN, ok \in BOOLEAN :
          InstanceReleaseLock(i, clientOk, ok)
    \/ InstanceReturn(i)

SpecInstances == InitInstances /\ [][NextInstances]_vars

\* ------------------------------------------------------------- properties
\* the indices of the calls of the running pass with this name
CallsNamed(name) == {i \in 1 .. Len(calls) : calls[i].name = name}
CallIssued(name, arg) == \E i \in 1 .. Len(calls) : calls[i] = Call(name, arg)
LockTaken == CallIssued("TakeLock", TRUE)
ExcludeCallName == "ExcludeProcessesWithNoWait"
\* the address lists handed to ExcludeProcessesWithNoWait by the running pass
ExcludeCalls == {calls[i].arg : i \in CallsNamed(ExcludeCallName)}
\* the strings under which a process group can be in the exclusion list
ExclusionTargets(id) ==
  {GetExclusionString(id)}
    \cup {AddressString(a) : a \in processGroups[id].addresses}
\* the process groups that have an address in the list
GroupsPassed(addresses) ==
  {id \in ProcessGroupIDs : ExclusionTargets(id) \cap addresses # {}}
GroupsOfClass(c) == {id \in ProcessGroupIDs : ProcessGroupClasses[id] = c}
TransactionClasses == {c \in ProcessClasses : IsTransaction(c)}
\* the class loop of the running pass has computed the allowed exclusions
Computed(c) == allowedExclusionsByClass[c] # -1
HasCandidates(c) == fdbProcessesToExcludeByClass[c] # <<>>

\* C1 (as the code has it): after a successful takeLock the exclusion
\* sub-reconciler issues no releaseLock on any path; when it returns, the
\* lock has not been released (neither once nor twice) and this instance
\* still holds it.
C1_LockHeldAtReturn ==
  LockTaken =>
    /\ CallsNamed("ReleaseLock") = {}
    /\ lockOwner = "self"

\* C1 witness: a pass that took the lock returns after a failed
\* coordinator change
C1_Witness ==
  /\ pc = "done"
  /\ LockTaken
  /\ CallIssued("ChangeCoordinators", FALSE)
  /\ result.curError

\* C1 as stated: when the sub-reconciler returns after a successful takeLock
\* it has released the lock exactly once and the lock is not held.
C1_ReleasedExactlyOnce ==
  (pc = "done" /\ LockTaken) =>
    /\ Cardinality(CallsNamed("ReleaseLock")) = 1
    /\ lockOwner # "self"

\* the addresses of the first n candidates of a class, as the pass found them
CandidateAddresses(c, n) ==
  UNION {fdbProcessesToExcludeByClass[c][i].addresses :
           i \in 1 .. Min(n, Len(fdbProcessesToExcludeByClass[c]))}
CandidateIDs(c, n) ==
  {fdbProcessesToExcludeByClass[c][i].processGroupID :
     i \in 1 .. Min(n, Len(fdbProcessesToExcludeByClass[c]))}

\* the pass of C2: log has candidates and 0 allowed exclusions, storage has
\* candidates and 2 allowed exclusions
C2_Case ==
  /\ HasCandidates("log") /\ allowedExclusionsByClass["log"] = 0
  /\ HasCandidates("storage") /\ allowedExclusionsByClass["storage"] = 2

\* C2 (as the code has it): in a pass where class log has candidates and 0
\* allowed exclusions while class storage has candidates and 2 allowed
\* exclusions, nothing is passed to the exclude call: the pass makes no
\* exclude call and returns, without an error, the delayed requeue with the
\* message about the transaction system.
C2_NothingExcluded ==
  C2_Case =>
    /\ ExcludeCalls = {}
    /\ pc = "done"
    /\ result = Requeue(FALSE, TRUE, 0, TransactionSystemMessage)

\* C2 witness: such a pass has returned
C2_Witness ==
  /\ pc = "done"
  /\ C2_Case
  /\ ~result.curError

\* C2 as stated: in such a pass the storage candidates are passed to the
\* exclude call.
C2_StorageStillExcluded ==
  (pc = "done" /\ C2_Case) =>
    \E addresses \in ExcludeCalls :
       CandidateAddresses("storage", 2) \subseteq addresses

\* C3: if a transaction class that has candidates has 0 allowed exclusions,
\* no address of a process group of any transaction class is passed to the
\* exclude call in that pass.
C3_NoTransactionExclusion ==
  (\E c \in TransactionClasses :
      HasCandidates(c) /\ allowedExclusionsByClass[c] = 0) =>
    \A addresses \in ExcludeCalls :
       \A id \in GroupsPassed(addresses) :
          ~IsTransaction(ProcessGroupClasses[id])

\* C3 witness: log has candidates and 0 allowed exclusions, stateless has a
\* candidate and a positive allowed count, and the pass has returned
C3_Witness ==
  /\ pc = "done"
  /\ HasCandidates("log") /\ allowedExclusionsByClass["log"] = 0
  /\ HasCandidates("stateless") /\ allowedExclusionsByClass["stateless"] > 0
  /\ ~result.curError

TargetInList(id, list) ==
  \/ GetExclusionString(id) \in list
  \/ /\ processGroups[id].addresses # {}
     /\ \A a \in processGroups[id].addresses : AddressString(a) \in list
\* the process groups of a class that are counted valid
CountedValid(c) ==
  {id \in GroupsOfClass(c) :
     /\ ~(processGroups[id].markedForRemoval /\ processGroups[id].excluded)
     /\ processGroups[id].missingMinutes = -1}
ValidNotInList(c, list) ==
  Cardinality({id \in CountedValid(c) : ~TargetInList(id, list)})
\* max(0, validProcesses + faultTolerance - desiredCount - ongoingExclusions)
\* from the counts of the running pass
AllowedByFormula(c) ==
  Max(0, validProcessesByClass[c] + config.desiredFaultTolerance
           - DesiredProcessCount[c] - ongoingExclusionsByClass[c])

\* C5: in local synchronization mode the number of process groups of a
\* class with an address passed to the exclude call is at most
\* max(0, validProcesses + faultTolerance - desiredCount - ongoingExclusions)
\* of that class (none for a class without candidates), and the exclude
\* call does not take the number of counted-valid process groups of a class
\* that are not in the exclusion list below desiredCount - faultTolerance.
C5_WithinFaultTolerance ==
  config.synchronizationMode = "local" =>
    \A addresses \in ExcludeCalls : \A c \in ProcessClasses :
       /\ Cardinality(GroupsPassed(addresses) \cap GroupsOfClass(c))
            <= IF Computed(c) THEN AllowedByFormula(c) ELSE 0
       /\ ValidNotInList(c, dbExclusions)
            >= Min(ValidNotInList(c, exclusions),
                   DesiredProcessCount[c] - config.desiredFaultTolerance)

\* C5 witness: an exclude call in local mode has brought the storage
\* process groups that are valid and not in the list down to
\* desiredCount - faultTolerance
C5_Witness ==
  /\ config.synchronizationMode = "local"
  /\ pc = "done"
  /\ \E addresses \in ExcludeCalls :
        GroupsPassed(addresses) \cap GroupsOfClass("storage") # {}
  /\ ValidNotInList("storage", exclusions)
       > DesiredProcessCount["storage"] - config.desiredFaultTolerance
  /\ ValidNotInList("storage", dbExclusions)
       = DesiredProcessCount["storage"] - config.desiredFaultTolerance

\* the process groups of a class that carry the MissingProcesses condition
\* for less than the grace window, and for at least the grace window
RecentlyMissing(c) ==
  {id \in GroupsOfClass(c) :
     /\ processGroups[id].missingMinutes # -1
     /\ processGroups[id].missingMinutes < IgnoreMissingProcessDuration}
LongMissing(c) ==
  {id \in GroupsOfClass(c) :
     processGroups[id].missingMinutes >= IgnoreMissingProcessDuration}
\* the process groups the count skips: marked for removal and excluded
MarkedAndExcluded ==
  {id \in ProcessGroupIDs :
     processGroups[id].markedForRemoval /\ processGroups[id].excluded}

InputDifference == fnIn[1] + fnIn[4] - fnIn[2] - fnIn[3]

\* C7: getAllowedExclusions returns
\* max(0, validProcesses + faultTolerance - desiredCount - ongoingExclusions):
\* the difference when that is non-negative and 0 otherwise, never a
\* negative number.
C7_AllowedExclusions ==
  fnOut # -1 =>
    /\ InputDifference >= 0 => fnOut = InputDifference
    /\ InputDifference < 0 => fnOut = 0
    /\ fnOut = Max(0, InputDifference)
    /\ fnOut >= 0

\* C7 witness: the function has returned for inputs with a negative
\* difference
C7_Witness ==
  /\ fnOut # -1
  /\ InputDifference < 0

\* the process groups getProcessesToExclude is said to count as ongoing:
\* marked for removal, not flagged excluded, and with the locality string
\* or (when addresses are excluded) every known address in the list
OngoingByTarget(c, list) ==
  {id \in GroupsOfClass(c) :
     /\ processGroups[id].markedForRemoval
     /\ ~processGroups[id].excluded
     /\ \/ GetExclusionString(id) \in list
        \/ /\ ~config.useLocalitiesForExclusion
           /\ processGroups[id].addresses # {}
           /\ \A a \in processGroups[id].addresses :
                 AddressString(a) \in list}

\* C9 as stated: ongoingExclusions of a class counts exactly the process
\* groups of the class that are marked for removal, not flagged excluded and
\* have their exclusion target in the exclusion list; none of them is a
\* candidate; a process group with no address in the list, or with no known
\* address, is not counted.
C9_OngoingExclusions ==
  \A c \in ProcessClasses :
     ongoingExclusionsByClass[c] # -1 =>
       /\ ongoingExclusionsByClass[c]
            = Cardinality(OngoingByTarget(c, exclusions))
       /\ OngoingByTarget(c, exclusions)
            \cap CandidateIDs(c, Len(fdbProcessesToExcludeByClass[c])) = {}

\* the process groups of a class with an address in some exclude call of
\* the running pass
PassedOfClass(c) ==
  UNION {GroupsPassed(addresses) \cap GroupsOfClass(c) :
           addresses \in ExcludeCalls}
\* a class of the running pass with more candidates than allowed exclusions
MoreCandidatesThanAllowed(c) ==
  /\ Computed(c)
  /\ Len(fdbProcessesToExcludeByClass[c]) > allowedExclusionsByClass[c]

C11_RecoveryCheckFails ==
  [][(/\ pc = "idle"
      /\ pc' # "idle"
      /\ classesToExclude(fdbProcessesToExcludeByClass') # {}
      /\ secondsSinceLastRecovered' < MinimumRecoveryTimeForExclusion
      /\ failedCall' \notin StartFailures)
       => /\ pc' = "done"
          /\ result' = Requeue(TRUE, TRUE, RecoveryRequeueDelay, "")
          /\ ExcludeCalls' = {}
          /\ CallsNamed("TakeLock")' = {}
          /\ CallsNamed("ChangeCoordinators")' = {}
          /\ lockOwner' = lockOwner
          /\ dbExclusions' = dbExclusions
          /\ dbCoordinators' = dbCoordinators]_vars

\* C11 witness: a pass with candidates has returned because the
\* recovery-state check failed
C11_Witness ==
  /\ pc = "done"
  /\ failedCall = RecoveryCheck
  /\ classesToExclude(fdbProcessesToExcludeByClass) # {}
  /\ secondsSinceLastRecovered < MinimumRecoveryTimeForExclusion
  /\ result.delay = RecoveryRequeueDelay

\* ------------------------------------------------ coordinators and exclusion
\* an exclude call of the running pass was handed the locality or an
\* address of a process group that was a coordinator when the pass began
CoordinatorPassed ==
  \E addresses \in ExcludeCalls :
     \E id \in coordinators : ExclusionTargets(id) \cap addresses # {}
ChangeCoordinatorsCalls == CallsNamed("ChangeCoordinators")

NamesOneOf(addresses, ids) ==
  \E id \in ids : ExclusionTargets(id) \cap addresses # {}

DatabaseCoordinatorsChanged ==
  coordinators # {} /\ dbCoordinators # coordinators
\* the running pass has written the cluster status to the resource store
StatusWritten == CallIssued("updateOrApply", TRUE)

\* C14 (as the code has it): after the exclusion step has returned, a
\* failed ChangeCoordinators has left the coordinator set of the database
\* unchanged and no status write was tried; a successful ChangeCoordinators
\* has changed the coordinator set of the database and is followed by
\* exactly one status write; when that write fails the step returns a
\* delayed requeue with the error, the coordinator set of the database
\* changed and the stored status not written.  A step that did not invoke
\* ChangeCoordinators changes neither.
C14_CoordinatorChangeOutcome ==
  pc = "done" =>
    /\ CallIssued("ChangeCoordinators", FALSE) =>
          /\ ~DatabaseCoordinatorsChanged
          /\ CallsNamed("updateOrApply") = {}
          /\ result = Requeue(TRUE, TRUE, 0, "")
    /\ CallIssued("ChangeCoordinators", TRUE) =>
          /\ DatabaseCoordinatorsChanged
          /\ Cardinality(CallsNamed("updateOrApply")) = 1
          /\ CallIssued("updateOrApply", FALSE) =>
                result = Requeue(TRUE, TRUE, 0, "")
          /\ StatusWritten => result = finalRequeue(allProcessesExcluded)
    /\ ChangeCoordinatorsCalls = {} =>
          /\ ~DatabaseCoordinatorsChanged
          /\ CallsNamed("updateOrApply") = {}

\* C14 witness: the step has returned after a successful ChangeCoordinators
\* and a failed status write
C14_Witness ==
  /\ pc = "done"
  /\ CallIssued("ChangeCoordinators", TRUE)
  /\ CallIssued("updateOrApply", FALSE)
  /\ DatabaseCoordinatorsChanged

\* C14 as stated: after the step has returned, the coordinator set of the
\* database is changed exactly if the stored status was written with the
\* new connection string.
C14_NeverPartial ==
  pc = "done" => (DatabaseCoordinatorsChanged <=> StatusWritten)

\* ------------------------------------------------------------ idempotence
\* the first part of the pass that runs next when nothing but the running
\* pass changes the state and no call fails
SecondRun(recovered) ==
  reconcileStart(config, processGroups, dbExclusions, dbPending, dbReady,
                 dbCoordinators, "none", recovered)
RecoveryStates == {0, MinimumRecoveryTimeForExclusion}
\* the running pass has returned and none of its calls failed
FirstRunDone == pc = "done" /\ failedCall = "none"

ClientFailures == {"getAdminClient", "GetStatus"}

\* C20 (as the code has it): when a call of the sub-reconciler fails, the
\* sub-reconciler returns a requeue that carries the error; the requeue is
\* a delayed requeue for every call but two: a failure to obtain the admin
\* client and a failure of GetStatus return a requeue that is not delayed.
C20_FailureRequeues ==
  (pc = "done" /\ failedCall # "none") =>
     /\ ~result.isNil
     /\ result.curError
     /\ result.delayedRequeue <=> failedCall \notin ClientFailures

\* C20 witness: the exclude call has failed and the sub-reconciler has
\* returned a delayed requeue with the error
C20_Witness ==
  /\ pc = "done"
  /\ failedCall = ExcludeCallName
  /\ result = Requeue(TRUE, TRUE, 0, "")

\* C20 as stated: every failing call makes the sub-reconciler return a
\* delayed requeue that carries the error.
C20_AlwaysDelayed ==
  (pc = "done" /\ failedCall # "none") =>
     /\ result.curError
     /\ result.delayedRequeue

\* ---------------------------------------------------------------- Reconcile
\* addPods has run ahead of the loop in the running pass
RanAhead == cluster.useDNSInClusterFile /\ ran # <<>>
\* the sub-reconcilers the loop of the running pass has run, in run order
RanInLoop == IF RanAhead THEN Tail(ran) ELSE ran
\* a non-nil requeue that is not a delayed requeue
Terminal(r) == ~r.isNil /\ ~r.delayedRequeue
\* the pass has got past the loop
LoopCompleted == index > Len(subReconcilers)
\* s is the beginning of the list of sub-reconcilers
IsPrefixOfList(s) ==
  /\ Len(s) <= Len(subReconcilers)
  /\ s = SubSeq(subReconcilers, 1, Len(s))
\* what C16 says of an early stop: the loop is left exactly on a requeue
\* that is non-nil and not delayed, and runs the whole list otherwise
StopsExactlyOnTerminal ==
  /\ phase = "pipeline" =>
        /\ Len(RanInLoop) = index - 1
        /\ ~Terminal(lastReq)
        /\ ~Terminal(preReq)
  /\ (phase = "returned" /\ RanInLoop # <<>>) =>
        IF Terminal(lastReq)
          THEN /\ index = Len(RanInLoop)
               /\ index <= Len(subReconcilers)
          ELSE /\ LoopCompleted
               /\ RanInLoop = subReconcilers
  /\ (phase = "returned" /\ Terminal(preReq)) => ran = <<addPodsReconciler>>

MaxOf(S) == CHOOSE d \in S : \A e \in S : e <= d
\* 2 seconds in place of no delay
OrDefault(d) == IF d = 0 THEN DefaultRequeueDelay ELSE d
\* the delays of the delayed requeues of the running pass, the one of
\* addPods run ahead of the loop included
RequestedInPass ==
  requested \cup
    (IF RanAhead /\ preReq.delayedRequeue THEN {preReq.delay} ELSE {})
\* Reconcile has returned after the loop ran the whole list
ReturnedAfterLoop == phase = "returned" /\ LoopCompleted

\* C17 (as the code has it): when a pass has run the whole list without a
\* requeue that ends it and either a sub-reconciler of the list returned a
\* delayed requeue or the reconciled generation is below the generation
\* read before the loop, Reconcile returns no error and requeueAfter equal
\* to the largest delay a delayed requeue of the list asked for, or 2
\* seconds when that is zero; a delayed requeue of addPods run ahead of the
\* loop is not counted.
C17_RequeueAfterMaxOfLoop ==
  (/\ ReturnedAfterLoop
   /\ requested # {} \/ cluster.reconciled < originalGeneration) =>
     /\ ~reconcileResult.error
     /\ reconcileResult.requeueAfter =
          IF requested = {} THEN DefaultRequeueDelay
          ELSE OrDefault(MaxOf(requested))

\* C17 witness: the list has run to its end, delayed requeues asked for 10
\* seconds and for 5 minutes, and Reconcile has returned 5 minutes
C17_Witness ==
  /\ ReturnedAfterLoop
  /\ requested = {RecoveryRequeueDelay, AdditionalExclusionsDelay}
  /\ reconcileResult = Result(AdditionalExclusionsDelay, FALSE)

\* C17 as stated: requeueAfter is the largest delay asked for by any delayed
\* requeue of the pass, or 2 seconds when that is zero.
C17_RequeueAfterMaxOfPass ==
  (/\ ReturnedAfterLoop
   /\ RequestedInPass # {} \/ cluster.reconciled < originalGeneration) =>
     /\ ~reconcileResult.error
     /\ reconcileResult.requeueAfter =
          IF RequestedInPass = {} THEN DefaultRequeueDelay
          ELSE OrDefault(MaxOf(RequestedInPass))

\* Reconcile has returned ctrl.Result{} and no error
ReturnedReconciled ==
  phase = "returned" /\ reconcileResult = Result(0, FALSE)

\* the requeue that made Reconcile return, NilRequeue if there is none
EndingRequeue ==
  IF Terminal(preReq) THEN preReq
  ELSE IF Terminal(lastReq) THEN lastReq ELSE NilRequeue

\* C18 (as the code has it): when Reconcile returns requeueAfter = 0 with
\* no error, either the cluster was not found or is marked to be skipped,
\* and no sub-reconciler ran, or a sub-reconciler ended the pass with a
\* requeue that is not delayed and carries neither an error nor a delay, or
\* the loop ran the whole list, no sub-reconciler of the list returned a
\* requeue of any kind, and the reconciled generation is at least the
\* generation read before the loop.
C18_ReconciledOrSkipped ==
  ReturnedReconciled =>
    IF ~cluster.exists \/ cluster.skip
      THEN ran = <<>>
    ELSE IF ~EndingRequeue.isNil
      THEN EndingRequeue = Requeue(FALSE, FALSE, 0, "")
      ELSE /\ LoopCompleted
           /\ RanInLoop = subReconcilers
           /\ requested = {}
           /\ lastReq.isNil
           /\ ~delayedRequeue
           /\ cluster.reconciled >= originalGeneration

\* C18 witness: a pass over a cluster whose generation was not reconciled
\* when the pass began has run the whole list and has returned
\* ctrl.Result{} and no error
C18_Witness ==
  /\ ReturnedReconciled
  /\ LoopCompleted
  /\ cluster.generation = MaxGeneration
  /\ cluster.reconciled = originalGeneration
  /\ ~cluster.useDNSInClusterFile

\* C18 as stated: whenever Reconcile returns requeueAfter = 0 with no
\* error, the loop ran the whole list, no sub-reconciler returned a requeue
\* and the reconciled generation is at least the generation read at the
\* start.
C18_FullyReconciled ==
  ReturnedReconciled =>
    /\ LoopCompleted
    /\ RanInLoop = subReconcilers
    /\ RequestedInPass = {}
    /\ cluster.reconciled >= cluster.generation

\* the steps of the pass that add to the topology
Expanding == {"addProcessGroups", "addServices", "addPVCs", "addPods"}
\* the steps of the pass that act on the status of the database
StatusDependent ==
  {"chooseRemovals", "excludeProcesses", "changeCoordinators",
   "bounceProcesses"}
\* the steps of the pass that take away from the topology
Shrinking == {"removeProcessGroups", "removeServices"}
\* every step of the set before that runs in the pass runs ahead of every
\* step of the set after that runs in it
RunsBefore(before, after) ==
  \A i, j \in DOMAIN ran :
    (ran[i] \in before /\ ran[j] \in after) => i < j
\* the exclusion step and the coordinator change run next to each other
ExcludeDirectlyBeforeChange ==
  \A i \in DOMAIN ran :
    /\ ran[i] = "changeCoordinators" =>
         i > 1 /\ ran[i - 1] = "excludeProcesses"
    /\ (ran[i] = "excludeProcesses" /\ i < Len(ran)) =>
         ran[i + 1] = "changeCoordinators"

\* C19 (as the code has it): in every pass the topology-expanding steps
\* that run come before the status-dependent steps, which come before the
\* topology-shrinking steps, and the exclusion step runs directly before
\* the coordinator change; the loop over the list starts with a status
\* update, ahead of which add-pods runs once when the cluster file uses
\* DNS names, and a pass whose loop ran the whole list ends with a status
\* update.
C19_OrderOfSteps ==
  /\ RunsBefore(Expanding, StatusDependent)
  /\ RunsBefore(StatusDependent, Shrinking)
  /\ ExcludeDirectlyBeforeChange
  /\ RanInLoop # <<>> => RanInLoop[1] = "updateStatus"
  /\ RanAhead => ran[1] = addPodsReconciler
  /\ (phase = "returned" /\ LoopCompleted) => ran[Len(ran)] = "updateStatus"
\* a pass over a cluster with DNS names that ran add-pods ahead and then
\* the whole list
C19_Witness ==
  /\ phase = "returned" /\ LoopCompleted /\ RanAhead
  /\ Len(ran) = Len(subReconcilers) + 1
\* C19 as stated: the same order, with a status update as the first and the
\* last step of every pass
C19_StatusUpdateFirstAndLast ==
  /\ RunsBefore(Expanding, StatusDependent)
  /\ RunsBefore(StatusDependent, Shrinking)
  /\ ExcludeDirectlyBeforeChange
  /\ (phase = "returned" /\ ran # <<>>) =>
       /\ ran[1] = "updateStatus"
       /\ ran[Len(ran)] = "updateStatus"

\* the runs of a step kept in runs
RunsOf(step) == {runs[i] : i \in {j \in DOMAIN runs : runs[j].step = step}}
\* the calls to the resource store that can fail
StoreCalls == {"Get", "Create", "Update"}
\* the run ended on a failure of a call to the resource store
StoreCallFailed(run) == run.failed[1] \in StoreCalls

\* C21 (as the code has it): a failure of a get or create call of addPVCs
\* makes the step return a delayed requeue carrying the error, which does
\* not end the pass; a failure of a get, create or update call of
\* updateConfigMap makes the step return the error in a requeue that is not
\* delayed, which ends the pass.
C21_StoreFailureRequeues ==
  /\ \A run \in RunsOf("addPVCs") :
       StoreCallFailed(run) =>
         /\ run.req = Requeue(TRUE, TRUE, 0, "")
         /\ ~endsPass(run.req)
  /\ \A run \in RunsOf("updateConfigMap") :
       StoreCallFailed(run) =>
         /\ run.req = Requeue(TRUE, FALSE, 0, "")
         /\ endsPass(run.req)
\* a failed create of addPVCs is followed by a failed update of
\* updateConfigMap
C21_Witness ==
  /\ Len(runs) = 2
  /\ runs[1].step = "addPVCs" /\ runs[1].failed[1] = "Create"
  /\ runs[2].step = "updateConfigMap" /\ runs[2].failed[1] = "Update"
\* C21 as stated: every failure of a call to the resource store in either
\* step gives a delayed requeue carrying the error
C21_StoreFailureDelayed ==
  \A i \in DOMAIN runs :
    StoreCallFailed(runs[i]) =>
      /\ runs[i].req.curError
      /\ runs[i].req.delayedRequeue
      /\ ~endsPass(runs[i].req)

\* the outcomes of the calls ahead of the loop that reject the cluster spec:
\* normalization or validation fails, or the version is not supported
Rejections ==
  {Made("NormalizeClusterSpec", "error"), Made("Validate", "error"),
   Made("VersionSupported", "unsupported")}
\* the running pass has found the cluster spec not to be acceptable
SpecRejected == \E i \in DOMAIN startCalls : startCalls[i] \in Rejections
\* the names of the calls the running pass made ahead of the loop
StartCallNames == {startCalls[i].name : i \in DOMAIN startCalls}
\* the calls that read or check and change neither the database nor an
\* object of the resource store
CheckingCalls == {"Get"} \cup {SpecChecks[i] : i \in DOMAIN SpecChecks}

\* C22: when normalization or validation of the cluster spec fails, or its
\* version is not supported, Reconcile returns an error with requeueAfter =
\* 0 and has run no sub-reconciler, fetched no status and made no call other
\* than the checks and the warning event of a failed validation; and a
\* sub-reconciler only ever runs after all checks of the spec have passed.
C22_RejectedSpecEndsPass ==
  /\ SpecRejected =>
       /\ phase = "returned"
       /\ reconcileResult = Result(0, TRUE)
       /\ ran = <<>>
       /\ "getStatus" \notin StartCallNames
       /\ StartCallNames \subseteq CheckingCalls \cup {"Recorder.Event"}
       /\ calls = <<>>
  /\ ran # <<>> =>
       /\ Len(startCalls) >= 1 + Len(SpecChecks)
       /\ \A i \in 1 .. 1 + Len(SpecChecks) : startCalls[i].outcome = "ok"
\* a pass over a cluster that exists and is not skipped in which Validate
\* fails
C22_Witness ==
  /\ phase = "returned"
  /\ cluster.exists /\ ~cluster.skip /\ cluster.useDNSInClusterFile
  /\ Made("Validate", "error") \in {startCalls[i] : i \in DOMAIN startCalls}

\* the names of the calls instance i has issued in its running pass
InstanceCallNames(i) ==
  {instances[i].calls[k].name : k \in DOMAIN instances[i].calls}
\* instance i has got past takeLock in its running pass
PastTakeLock(i) == instances[i].pc \in {"exclude", "call", "coordinators"}
\* the failures that come from the lock client
LockFailures == {"getLockClient", "TakeLock", "ReleaseLock"}

\* C23 (as the code has it): when the cluster does not use locks, takeLock
\* returns success without a call to the lock client and the lock stays
\* free; releaseLock however gets the lock client and calls its ReleaseLock
\* whatever the cluster says, and returns the error of either call.
C23_TakeLockNoOpReleaseLockCalls ==
  ~config.shouldUseLocks =>
    /\ lockOwner = "none"
    /\ \A i \in Instances :
         /\ instances[i].pc # "released" =>
              /\ "TakeLock" \notin InstanceCallNames(i)
              /\ instances[i].failed \notin LockFailures
              /\ ~instances[i].lockTaken
         /\ instances[i].pc = "released" =>
              \/ /\ instances[i].failed = "getLockClient"
                 /\ instances[i].calls = <<>>
              \/ /\ instances[i].failed = "ReleaseLock"
                 /\ instances[i].calls = <<Call("ReleaseLock", FALSE)>>
              \/ /\ instances[i].failed = "none"
                 /\ instances[i].calls = <<Call("ReleaseLock", TRUE)>>
\* without locks one instance has got past takeLock and the other has
\* called releaseLock, which failed
C23_Witness ==
  /\ ~config.shouldUseLocks
  /\ PastTakeLock("a")
  /\ instances["b"].pc = "released"
  /\ instances["b"].failed = "ReleaseLock"
\* C23 as stated: without locks neither takeLock nor releaseLock calls the
\* lock client, and both return success
C23_BothNoOps ==
  ~config.shouldUseLocks =>
    /\ lockOwner = "none"
    /\ \A i \in Instances :
         /\ InstanceCallNames(i) \cap {"TakeLock", "ReleaseLock"} = {}
         /\ instances[i].failed \notin LockFailures

\* instance i holds the lock it took in its running pass and has not yet
\* got back from its exclude call and its change of the coordinators
InLockedSection(i) == PastTakeLock(i) /\ instances[i].lockTaken
\* the pass of instance i has ended on a takeLock that failed
TakeLockFailed(i) ==
  /\ instances[i].pc = "done"
  /\ instances[i].failed \in {"getLockClient", "TakeLock"}

\* C24: with locks in use, no two instances are at the same time between a
\* takeLock that succeeded and the return of their exclude call or
\* coordinator change, every instance that has got past takeLock holds the
\* lock, and an instance whose takeLock failed has issued no exclude call
\* and returns a delayed requeue carrying the error.
C24_OneInstanceExcludesAtATime ==
  config.shouldUseLocks =>
    /\ \A i, j \in Instances :
         (InLockedSection(i) /\ InLockedSection(j)) => i = j
    /\ \A i \in Instances :
         /\ PastTakeLock(i) => instances[i].lockTaken /\ lockOwner = i
         /\ TakeLockFailed(i) =>
              /\ "ExcludeProcessesWithNoWait" \notin InstanceCallNames(i)
              /\ instances[i].result = Requeue(TRUE, TRUE, 0, "")
              /\ instances[i].result.delayedRequeue
\* both instances have computed what to exclude; one holds the lock and is
\* about to exclude, the other was refused the lock
C24_Witness ==
  /\ config.shouldUseLocks
  /\ InLockedSection("a") /\ instances["a"].pc = "exclude"
  /\ TakeLockFailed("b")
  /\ Call("TakeLock", FALSE) \in
       {instances["b"].calls[k] : k \in DOMAIN instances["b"].calls}
  /\ instances["a"].toExclude # {} /\ instances["b"].toExclude # {}

\* the process groups the running pass of instance i has asked to add to
\* the pending map and to the ready map, taken from its calls
AddedBy(i, name) ==
  UNION {instances[i].calls[k].arg :
           k \in {n \in DOMAIN instances[i].calls :
                    instances[i].calls[n].name = name}}
\* a pass asks to add only process groups that the map it read did not hold
AddsOnlyWhatItDidNotRead ==
  \A i \in Instances :
    /\ AddedBy(i, "UpdatePendingForExclusion") \cap instances[i].pendingRead
         = {}
    /\ AddedBy(i, "UpdateReadyForExclusion") \cap instances[i].readyRead = {}
    /\ instances[i].pendingUpdate \cap instances[i].pendingRead = {}
    /\ instances[i].readyUpdate \cap instances[i].readyRead = {}
\* no step of any instance takes an entry out of the pending or ready map
MapsOnlyGrow == dbPending \subseteq dbPending' /\ dbReady \subseteq dbReady'

PositionsIn(issued, name) == {k \in DOMAIN issued : issued[k].name = name}
\* instance i makes its exclude call in this step
MakesExcludeCall(i) ==
  /\ PositionsIn(instances[i].calls, "ExcludeProcessesWithNoWait") = {}
  /\ PositionsIn(instances'[i].calls, "ExcludeProcessesWithNoWait") # {}
\* the addresses instance i hands to the exclude call it makes in this step
ExcludeCallArgument(i) == instances'[i].calls[Len(instances'[i].calls)].arg
\* in the calls of the pass the registration in the pending map comes first,
\* the registration in the ready map next and the exclude call after them
RegisteredInOrder(issued) ==
  /\ PositionsIn(issued, "UpdatePendingForExclusion") # {}
  /\ PositionsIn(issued, "UpdateReadyForExclusion") # {}
  /\ \A p \in PositionsIn(issued, "UpdatePendingForExclusion"),
        r \in PositionsIn(issued, "UpdateReadyForExclusion"),
        e \in PositionsIn(issued, "ExcludeProcessesWithNoWait") :
        p < r /\ r < e
\* what holds of a step in which instance i makes its exclude call
ExcludeCallFollowsMode(i) ==
  IF config.synchronizationMode = "global"
    THEN /\ RegisteredInOrder(instances'[i].calls)
         /\ instances[i].pendingUpdate \subseteq dbPending
         /\ instances[i].readyUpdate \subseteq dbReady
         /\ instances[i].pendingUpdate \subseteq instances[i].pendingReread
         /\ instances[i].readyUpdate \subseteq instances[i].readyReread
         /\ ExcludeCallArgument(i) =
              GetAddressesFromCoordinationState(processGroups,
                AllProcessesReadyForExclusion(instances[i].pendingReread,
                                              instances[i].readyReread),
                config.useLocalitiesForExclusion)
    ELSE /\ ExcludeCallArgument(i) = instances[i].toExclude
         /\ PositionsIn(instances'[i].calls, "UpdatePendingForExclusion") = {}
         /\ PositionsIn(instances'[i].calls, "UpdateReadyForExclusion") = {}
         /\ instances[i].pendingRead = {} /\ instances[i].readyRead = {}
         /\ instances[i].pendingReread = {}
         /\ instances[i].readyReread = {}
\* in local mode no step reads or changes the pending and the ready map
LocalModeLeavesMaps ==
  config.synchronizationMode = "local" =>
    /\ UNCHANGED <<dbPending, dbReady>>
    /\ \A i \in Instances :
         /\ instances'[i].pendingRead = {} /\ instances'[i].readyRead = {}
         /\ instances'[i].pendingReread = {}
         /\ instances'[i].readyReread = {}

\* C26: in global mode an instance makes its exclude call only after it has,
\* in the same pass and in this order, registered its candidates in the
\* pending map and its allowed candidates in the ready map, and it hands
\* over the addresses of what AllProcessesReadyForExclusion gives for the
\* pending and ready maps it read after them; in local mode it hands over
\* the set it computed itself and the maps are neither read nor written.
C26_ExcludeCallAfterRegistration ==
  [][/\ \A i \in Instances : MakesExcludeCall(i) => ExcludeCallFollowsMode(i)
     /\ LocalModeLeavesMaps]_vars
\* in global mode an instance has excluded what the maps gave it, which is
\* more than the set it computed itself
C26_Witness ==
  /\ config.synchronizationMode = "global"
  /\ instances["a"].pc = "coordinators"
  /\ RegisteredInOrder(instances["a"].calls)
  /\ AddressString(PrimaryAddress(6)) \in instances["a"].toExclude
  /\ AddressString(PrimaryAddress(1)) \in instances["a"].toExclude

\* the pass has returned and none of its calls failed
ReturnedWithoutFailure == pc = "done" /\ failedCall = "none"
\* line 96: no process group needs exclusion
NothingNeedsExclusion == classesToExclude(fdbProcessesToExcludeByClass) = {}
\* lines 223 and 232: the loop over the classes selected nothing, or the
\* rule for the transaction system forbids the exclusion
NoneAllowed ==
  /\ ~NothingNeedsExclusion
  /\ \/ fdbProcessesToExclude = {}
     \/ ~transactionSystemExclusionAllowed(fdbProcessesToExcludeByClass,
                                           allowedExclusionsByClass)

CallNamesOf(run) == {run.calls[k].name : k \in DOMAIN run.calls}
\* what a run created
CreatedBy(run) ==
  {run.calls[k].arg : k \in {n \in DOMAIN run.calls : run.calls[n].name = "Create"}}
\* a run creates only what the store it found did not hold
CreatesOnlyAbsent(run) ==
  IF run.step = "addPVCs"
    THEN CreatedBy(run) \cap run.before = {}
    ELSE CreatedBy(run) # {} => ~run.before.exists
\* a run of addPVCs makes no call but Create and every PVC it found is
\* still in the store
AddPVCsOnlyAdds(run) ==
  run.step = "addPVCs" =>
    /\ CallNamesOf(run) \subseteq {"Create"}
    /\ run.before \subseteq pvcs
\* a run of updateConfigMap updates only a config map whose data differ from
\* the desired data or whose metadata lack a desired label or annotation
UpdatesOnlyDifferent(run) ==
  (run.step = "updateConfigMap" /\ "Update" \in CallNamesOf(run)) =>
    /\ run.before.exists
    /\ \/ run.before.data # desiredConfigMap.data
       \/ ~(desiredConfigMap.labels \subseteq run.before.labels)
       \/ ~(desiredConfigMap.annotations \subseteq run.before.annotations)
\* the pairs of an earlier and a later run of the same step
RunPairs ==
  {p \in (DOMAIN runs) \X (DOMAIN runs) :
     p[1] < p[2] /\ runs[p[1]].step = runs[p[2]].step}

PassedGroupsOfClass(c) ==
  UNION {GroupsPassed(addresses) \cap GroupsOfClass(c) :
           addresses \in ExcludeCalls}

\* C31: in global mode too, for every process class for which the pass
\* computed the allowed exclusions, the number of process groups of the
\* class whose addresses are passed to the exclude call is at most that
\* number.
C31_WithinLocalAllowance ==
  config.synchronizationMode = "global" =>
    \A c \in ProcessClasses :
       allowedExclusionsByClass[c] >= 0 =>
         Cardinality(PassedGroupsOfClass(c)) <= allowedExclusionsByClass[c]

\* the pass is about to read the maps again and make the exclude call
AboutToExclude == pc = "exclude"
\* what AllProcessesReadyForExclusion gives a global pass for the maps as
\* they are
ReadyNow == AllProcessesReadyForExclusion(dbPending, dbReady)

ReadsMapsAgain(i) ==
  instances[i].pc = "exclude" /\ instances'[i].pc = "call"
\* instance i has read the maps again and has not yet made its exclude call
BetweenReadAndCall(i) == instances[i].pc = "call"
\* the running pass of instance i has called TakeLock and got the lock
TookLock(i) ==
  Call("TakeLock", TRUE) \in
    {instances[i].calls[k] : k \in DOMAIN instances[i].calls}
\* the read that decides the addresses is made by the holder of the lock
ReadUnderLock ==
  \A i \in Instances :
    ReadsMapsAgain(i) =>
      /\ TookLock(i) /\ instances[i].lockTaken /\ lockOwner = i
      /\ "ExcludeProcessesWithNoWait" \notin InstanceCallNames(i)
\* between the read and the exclude call of an instance nobody else makes an
\* exclude call and the exclusion list stays as it is
NobodyElseExcludes ==
  \A i \in Instances :
    BetweenReadAndCall(i) =>
      /\ lockOwner = i /\ lockOwner' = i
      /\ \A j \in Instances \ {i} : ~MakesExcludeCall(j)
      /\ BetweenReadAndCall(i)' => dbExclusions' = dbExclusions

\* C33: with locks in use, a global pass reads the pending and the ready map
\* that decide the addresses of its exclude call after it took the lock in
\* the same pass, and between that read and its exclude call no other
\* instance makes an exclude call.
C33_ReadAndExcludeUnderLock ==
  [][(config.shouldUseLocks /\ config.synchronizationMode = "global") =>
       (ReadUnderLock /\ NobodyElseExcludes)]_vars
\* C33 witness: with locks in use a global pass has read the maps under the
\* lock and is about to call, while the other instance, which has its own
\* set to exclude, waits for the lock
C33_Witness ==
  /\ config.shouldUseLocks /\ config.synchronizationMode = "global"
  /\ BetweenReadAndCall("a") /\ TookLock("a")
  /\ instances["a"].readyReread # {}
  /\ instances["b"].pc = "lock" /\ instances["b"].toExclude # {}

\* the process groups the pass asked to add to the pending and to the ready
\* map
AddedToPending ==
  UNION {calls[k].arg : k \in CallsNamed("UpdatePendingForExclusion")}
AddedToReady ==
  UNION {calls[k].arg : k \in CallsNamed("UpdateReadyForExclusion")}
\* the exclusion candidates of the pass: the entries of
\* fdbProcessesToExcludeByClass
CandidatesOfPass ==
  UNION {{fdbProcessesToExcludeByClass[c][k].processGroupID :
            k \in DOMAIN fdbProcessesToExcludeByClass[c]} :
         c \in ProcessClasses}
\* what a pass adds to the ready map is in the pending map when both
\* updates succeeded
ReadyAddsArePending ==
  (config.synchronizationMode = "global"
     /\ failedCall \notin {"UpdatePendingForExclusion",
                           "UpdateReadyForExclusion"}) =>
    AddedToReady \subseteq dbPending

\* C34: in global mode every process group a pass adds to the pending map is
\* an exclusion candidate of that pass, so that no pending entry is left
\* for a process group that is counted as an ongoing exclusion, and every
\* process group a pass adds to the ready map is in the pending map once
\* both updates succeeded.
C34_PendingEntriesAreCandidates ==
  config.synchronizationMode = "global" =>
    /\ AddedToPending \subseteq CandidatesOfPass
    /\ ReadyAddsArePending

\* the pass has called r.takeLock: it called TakeLock of the lock client or
\* failed to get the lock client
TakeLockCalled == CallsNamed("TakeLock") # {} \/ failedCall = "getLockClient"
\* the process groups the loop over the classes selected in this pass
SelectedInPass ==
  selectedEntries(fdbProcessesToExcludeByClass, allowedExclusionsByClass)
\* the pass has returned because it defers the exclusion or has no candidate
DefersOrHasNothing ==
  /\ pc = "done"
  /\ \/ failedCall = RecoveryCheck
     \/ failedCall = "none"
          /\ \/ NothingNeedsExclusion
             \/ result = Requeue(FALSE, TRUE, 0, NotAllowedMessage)
             \/ result = Requeue(FALSE, TRUE, 0, TransactionSystemMessage)

\* C35: a pass calls takeLock only when the loop over the classes selected
\* process groups to exclude, the recovery-state check passed and the
\* transaction rule allows the exclusion; a pass that defers the exclusion
\* or has no candidate does not call it; a pass calls TakeLock at most once
\* and before its exclude call.
C35_LockOnlyToExclude ==
  /\ (pc = "lock" \/ TakeLockCalled) =>
       /\ SelectedInPass # {}
       /\ transactionSystemExclusionAllowed(fdbProcessesToExcludeByClass,
                                            allowedExclusionsByClass)
       /\ failedCall # RecoveryCheck
       /\ ExcludeCalls = {} =>
            /\ fdbProcessesToExclude # {}
            /\ CanSafelyExcludeProcessesWithRecoveryState(
                 secondsSinceLastRecovered, MinimumRecoveryTimeForExclusion)
  /\ DefersOrHasNothing => ~TakeLockCalled /\ ExcludeCalls = {}
  /\ Cardinality(CallsNamed("TakeLock")) <= 1
  /\ \A e \in CallsNamed(ExcludeCallName) :
        \E l \in CallsNamed("TakeLock") : l < e /\ calls[l].arg = TRUE
\* C35 witness: the pass has taken the lock and made the exclude call
C35_Witness ==
  /\ Cardinality(CallsNamed("TakeLock")) = 1
  /\ CallsNamed(ExcludeCallName) # {}
  /\ SelectedInPass # {}

\* a step of the pass of excludeProcesses
StepOfPass == pc # "idle" \/ pc' # "idle"
\* the pass makes its exclude call in this step
ExcludeCallMade ==
  /\ Len(calls') = Len(calls) + 1
  /\ calls'[Len(calls')].name = ExcludeCallName

\* C36 (as the code has it): the exclude call, whether it succeeds or fails,
\* sets the seconds since the last recovery to 0 in the status the pass
\* works on; that is the status the later sub-reconcilers get when Reconcile
\* cached one, and a status of the pass alone when Reconcile cached none, in
\* which case the later sub-reconcilers are handed none; a step of the pass
\* that makes no exclude call leaves the cached status as it is.
C36_RecoveryStateReset ==
  [][StepOfPass =>
       IF ExcludeCallMade
         THEN /\ secondsSinceLastRecovered' = 0
              /\ status # NoStatus => status' = 0
              /\ status = NoStatus => status' = NoStatus
         ELSE status' = status]_vars
\* C36 witness: Reconcile cached a status with a recovery long ago, the
\* exclude call of the pass failed, and the cached status says 0 seconds
C36_Witness ==
  /\ pc = "done"
  /\ failedCall = ExcludeCallName
  /\ ExcludeCalls # {}
  /\ status = 0
  /\ secondsSinceLastRecovered = 0

\* C36 as stated: once the pass has made the exclude call the status shared
\* with the later sub-reconcilers says 0 seconds since the last recovery, and
\* a step that makes no exclude call leaves it as it is.
C36_SharedStatusReset ==
  [][StepOfPass =>
       IF ExcludeCallMade THEN status' = 0 ELSE status' = status]_vars

\* ------------------------------------------------------------------ C37
\* Reconcile has returned from a pass that got as far as the early run of
\* addPods for a cluster with DNS names in its cluster file
EarlyRunPassReturned ==
  /\ phase = "returned"
  /\ cluster.useDNSInClusterFile
  /\ ran # <<>>
\* the status was asked for in this pass
StatusFetched == \E i \in DOMAIN startCalls : startCalls[i].name = "getStatus"
\* the signal to shut down could not be sent (lines 627-637)
ShutdownFailed ==
  \E i \in DOMAIN startCalls : startCalls[i] = Made("Signal", "error")
\* how often addPods ran in the pass
AddPodsRuns == Cardinality({i \in DOMAIN ran : ran[i] = addPodsReconciler})
\* the loop ran the first sub-reconcilers of the list, in the order of the list
LoopRanPrefix ==
  /\ Len(RanInLoop) <= Len(subReconcilers)
  /\ \A i \in DOMAIN RanInLoop : RanInLoop[i] = subReconcilers[i]
\* the early run ended the pass: nothing else ran, no status was asked for
EndedByEarlyRun ==
  /\ ran = <<addPodsReconciler>>
  /\ ~StatusFetched
  /\ reconcileResult = processRequeue(preReq)

\* C37 as amended: with DNS names in the cluster file addPods runs first.
\* A requeue of that run that is not delayed ends the pass with no status
\* fetch and no other step. Otherwise the loop runs the list from its start,
\* and it runs all of it, addPods a second time included, unless the signal
\* to shut down failed after the status fetch or a sub-reconciler of the
\* loop returned a requeue that is not delayed, which ends the pass there.
C37_EarlyAddPods ==
  EarlyRunPassReturned =>
    /\ ran[1] = addPodsReconciler
    /\ IF Terminal(preReq)
         THEN EndedByEarlyRun
         ELSE /\ LoopRanPrefix
              /\ \/ RanInLoop = subReconcilers /\ AddPodsRuns = 2
                 \/ RanInLoop = <<>> /\ ShutdownFailed
                 \/ RanInLoop # <<>> /\ Terminal(lastReq)
\* a pass whose early run returned a delayed requeue and that ran the whole
\* list afterwards, addPods twice
C37_Witness ==
  /\ EarlyRunPassReturned
  /\ ~preReq.isNil
  /\ preReq.delayedRequeue
  /\ StatusFetched
  /\ RanInLoop = subReconcilers
  /\ AddPodsRuns = 2
\* a pass whose early run returned a requeue that is not delayed
C37_EndedEarly ==
  EarlyRunPassReturned /\ Terminal(preReq) /\ EndedByEarlyRun
\* C37 as stated: when the early run does not end the pass, the loop runs
\* as in any other pass: the whole list, addPods a second time included,
\* or the list up to a sub-reconciler whose requeue is not delayed
C37_EarlyAddPodsThenWholeList ==
  EarlyRunPassReturned =>
    /\ ran[1] = addPodsReconciler
    /\ IF Terminal(preReq)
         THEN EndedByEarlyRun
         ELSE /\ LoopRanPrefix
              /\ \/ RanInLoop = subReconcilers /\ AddPodsRuns = 2
                 \/ RanInLoop # <<>> /\ Terminal(lastReq)

\* ------------------------------------------------------------------ C38
\* the database's exclusions cover the process group: its exclusion string
\* or every one of its addresses is excluded
ObservedExcluded(id) ==
  \/ GetExclusionString(id) \in dbExclusions
  \/ /\ processGroups[id].addresses # {}
     /\ \A a \in processGroups[id].addresses :
           AddressString(a) \in dbExclusions
\* the step flags the process group as excluded in the status
BecomesExcluded(id) ==
  ~processGroups[id].excluded /\ processGroups'[id].excluded

\* C38: no step of a pass of excludeProcesses changes the process groups of
\* the status (removal mark, excluded flag, conditions, addresses), and a
\* process group is flagged as excluded only outside a pass, by a status
\* update that finds it covered by the exclusions of the database.
C38_ProcessGroupsUnchanged ==
  [][/\ StepOfPass => processGroups' = processGroups
     /\ \A id \in ProcessGroupIDs :
          BecomesExcluded(id) =>
            /\ ~StepOfPass
            /\ ObservedExcluded(id)]_vars
\* a pass has made the exclude call with success and is about to return; a
\* process group it excluded is in the exclusions of the database and is not
\* flagged as excluded in the status
C38_Witness ==
  /\ pc = "done"
  /\ failedCall = "none"
  /\ ExcludeCalls # {}
  /\ \E id \in excludedProcessGroups :
        /\ ObservedExcluded(id)
        /\ ~processGroups[id].excluded

====
